---- MODULE Spec2Model ----
(***************************************************************************)
(* Verification model of the Vadose saturated-flow engine                  *)
(* (backend/solvers/transient, backend/solvers/steady_state).              *)
(*                                                                         *)
(* Real numbers are exact rationals <<n, d>> (d > 0, lowest terms) in the  *)
(* transient engine, whose linear algebra is exact up to floating-point    *)
(* rounding, and fixed-point integers in the iterative solver.             *)
(***************************************************************************)
EXTENDS Integers, Sequences, FiniteSets, TLC

\* ------------------------------------------------------------------------
\* Exact rational arithmetic (stands for the float arithmetic of numpy)
\* ------------------------------------------------------------------------
Abs(x) == IF x < 0 THEN -x ELSE x

\* The arithmetic operations are functions, so that their arguments are
\* values when the body is evaluated.
\* Euclid's algorithm
GCD[a \in Nat, b \in Nat] == IF b = 0 THEN a ELSE GCD[b, a % b]

\* the fraction n/d in lowest terms with a positive denominator
Rat[n \in Int, d \in Int] ==
    LET s == IF d < 0 THEN -1 ELSE 1
        g == GCD[Abs(n), Abs(d)]
    IN  <<(s * n) \div g, (s * d) \div g>>

Rationals == Int \X Int

QI(k) == <<k, 1>>
QZero == <<0, 1>>
QOne == <<1, 1>>

\* numerators of x and y over their least common denominator
OverLcd[x \in Rationals, y \in Rationals] ==
    LET g == GCD[x[2], y[2]]
    IN  <<x[1] * (y[2] \div g), y[1] * (x[2] \div g), (x[2] \div g) * y[2]>>

QAdd[x \in Rationals, y \in Rationals] ==
    LET c == OverLcd[x, y] IN Rat[c[1] + c[2], c[3]]

QSub[x \in Rationals, y \in Rationals] ==
    LET c == OverLcd[x, y] IN Rat[c[1] - c[2], c[3]]

QMul[x \in Rationals, y \in Rationals] ==
    LET g1 == GCD[Abs(x[1]), y[2]]
        g2 == GCD[Abs(y[1]), x[2]]
    IN  IF x[1] = 0 \/ y[1] = 0 THEN <<0, 1>>
        ELSE <<(x[1] \div g1) * (y[1] \div g2), (x[2] \div g2) * (y[2] \div g1)>>

QInv[x \in Rationals] == IF x[1] < 0 THEN <<-x[2], -x[1]>> ELSE <<x[2], x[1]>>

QDiv[x \in Rationals, y \in Rationals] == QMul[x, QInv[y]]

QNeg[x \in Rationals] == <<-x[1], x[2]>>

QLt[x \in Rationals, y \in Rationals] == LET c == OverLcd[x, y] IN c[1] < c[2]

QLe[x \in Rationals, y \in Rationals] == LET c == OverLcd[x, y] IN c[1] <= c[2]

QAbs[x \in Rationals] == <<Abs(x[1]), x[2]>>

RECURSIVE QSum(_, _)
\* sum of f[k] over the finite set D
QSum(f, D) ==
    IF D = {} THEN QZero
    ELSE LET k == CHOOSE e \in D : TRUE
         IN  QAdd[f[k], QSum(f, D \ {k})]

RECURSIVE SumInt(_, _)
SumInt(f, D) ==
    IF D = {} THEN 0
    ELSE LET k == CHOOSE e \in D : TRUE
         IN  f[k] + SumInt(f, D \ {k})

SetMax(S) == CHOOSE m \in S : \A e \in S : e <= m
SetMin(S) == CHOOSE m \in S : \A e \in S : m <= e

\* matrix-vector product over index set 0..N-1
MatVec(A, x, N) ==
    [k \in 0..(N - 1) |->
        QSum([c \in 0..(N - 1) |-> QMul[A[k][c], x[c]]], 0..(N - 1))]

\* ------------------------------------------------------------------------
\* np.linalg.solve: exact solution of A x = b, or failure on a singular A
\* (Gauss-Jordan elimination; the pivot row is interchanged into place)
\* ------------------------------------------------------------------------
\* an explicitly tabulated copy of the function f
Tabulate(f) == f @@ <<>>

\* evaluates x once and applies F to the value
Strictly(F(_), x) == CHOOSE r \in {F(v) : v \in {x}} : TRUE

RECURSIVE GcdOver(_, _)
GcdOver(f, D) ==
    IF D = {} THEN 0
    ELSE LET k == CHOOSE e \in D : TRUE
         IN  GCD[Abs(f[k]), GcdOver(f, D \ {k})]

RECURSIVE LcmOver(_, _)
LcmOver(f, D) ==
    IF D = {} THEN 1
    ELSE LET k == CHOOSE e \in D : TRUE
             l == LcmOver(f, D \ {k})
         IN  (l \div GCD[l, f[k]]) * f[k]

\* A row of the augmented system is [a |-> integer coefficients, r |-> rational
\* right-hand side]; scaling a row leaves the solution unchanged.
ReduceRow(row, N) ==
    LET scaled(v) ==
            LET g == GcdOver(v.a, 0..(N - 1))
            IN  IF g <= 1 THEN v
                ELSE [a |-> Tabulate([col \in 0..(N - 1) |-> v.a[col] \div g]),
                      r |-> QDiv[v.r, QI(g)]]
    IN  Strictly(scaled, row)

IntegerRow(arow, rhs, N) ==
    LET l == LcmOver([col \in 0..(N - 1) |-> arow[col][2]], 0..(N - 1))
    IN  ReduceRow([a |-> Tabulate([col \in 0..(N - 1) |->
                                      arow[col][1] * (l \div arow[col][2])]),
                   r |-> QMul[rhs, QI(l)]], N)

RECURSIVE GaussJordan(_, _, _)
GaussJordan(M, N, c) ==
    IF c = N THEN [ok |-> TRUE, M |-> M]
    ELSE
      LET P == {r \in c..(N - 1) : M[r].a[c] # 0}
      IN  IF P = {} THEN [ok |-> FALSE, M |-> M]
          ELSE
            LET p  == SetMin(P)
                eliminate(Sw) ==
                    LET pv == Sw[c].a[c]
                    IN  Tabulate([r \in 0..(N - 1) |->
                          IF r = c \/ Sw[r].a[c] = 0 THEN Sw[r]
                          ELSE LET g  == GCD[Abs(pv), Abs(Sw[r].a[c])]
                                   fp == pv \div g
                                   fr == Sw[r].a[c] \div g
                               IN  ReduceRow(
                                     [a |-> Tabulate([col \in 0..(N - 1) |->
                                               fp * Sw[r].a[col] - fr * Sw[c].a[col]]),
                                      r |-> QSub[QMul[QI(fp), Sw[r].r],
                                                 QMul[QI(fr), Sw[c].r]]], N)])
                rest(E) == GaussJordan(E, N, c + 1)
            IN  Strictly(rest, Strictly(eliminate,
                    [r \in 0..(N - 1) |->
                        IF r = c THEN M[p] ELSE IF r = p THEN M[c] ELSE M[r]]))

linalg_solve(A, b, N) ==
    LET Aug == Tabulate([r \in 0..(N - 1) |-> IntegerRow(A[r], b[r], N)])
        reduce(M) == GaussJordan(M, N, 0)
        read(R) == [ok |-> R.ok,
                    x  |-> [k \in 0..(N - 1) |->
                               IF R.ok THEN QDiv[R.M[k].r, QI(R.M[k].a[k])]
                               ELSE QZero]]
    IN  Strictly(read, Strictly(reduce, Aug))

\* ------------------------------------------------------------------------
\* Grid indexing of the transient path (row-major, k = i*ny + j)
\* ------------------------------------------------------------------------
Cells(nx, ny) == (0..(nx - 1)) \X (0..(ny - 1))

\* _cell_to_linear_index for an (i, j) pair
cell_to_linear_index(cell, ny) == cell[1] * ny + cell[2]

\* number of occurrences of k in the cell list cs
RECURSIVE CountIn(_, _)
CountIn(cs, k) ==
    IF cs = <<>> THEN 0
    ELSE (IF Head(cs) = k THEN 1 ELSE 0) + CountIn(Tail(cs), k)

SeqToSet(cs) == {cs[n] : n \in 1..Len(cs)}

\* ------------------------------------------------------------------------
\* MatrixAssembly.build_conductance_matrix
\* ------------------------------------------------------------------------
\* a conductance taken from the cell's own transmissivity alone
Conductance_Own(Tw, Te, d2) == QDiv[QI(Tw), QI(d2)]

\* harmonic-mean conductance (2*Tw*Te)/(Tw+Te)/d2
Conductance(Tw, Te, d2) == QDiv[QDiv[QI(2 * Tw * Te), QI(Tw + Te)], QI(d2)]

\* a stencil whose NORTH branch stops one row early (j < ny - 2): the
\* assembly it yields loses the link from row ny-2 to row ny-1
Stencil_NorthShort(nx, ny, dx, dy, active, i, j) ==
    << [on |-> IF i > 0 THEN active[<<i - 1, j>>] ELSE FALSE,
        nb |-> <<i - 1, j>>, d2 |-> dx * dx],
       [on |-> IF i < nx - 1 THEN active[<<i + 1, j>>] ELSE FALSE,
        nb |-> <<i + 1, j>>, d2 |-> dx * dx],
       [on |-> IF j > 0 THEN active[<<i, j - 1>>] ELSE FALSE,
        nb |-> <<i, j - 1>>, d2 |-> dy * dy],
       [on |-> IF j < ny - 2 THEN active[<<i, j + 1>>] ELSE FALSE,
        nb |-> <<i, j + 1>>, d2 |-> dy * dy] >>

\* the four neighbour branches of one cell, in the order WEST, EAST, SOUTH, NORTH
Stencil(nx, ny, dx, dy, active, i, j) ==
    << [on |-> IF i > 0 THEN active[<<i - 1, j>>] ELSE FALSE,
        nb |-> <<i - 1, j>>, d2 |-> dx * dx],
       [on |-> IF i < nx - 1 THEN active[<<i + 1, j>>] ELSE FALSE,
        nb |-> <<i + 1, j>>, d2 |-> dx * dx],
       [on |-> IF j > 0 THEN active[<<i, j - 1>>] ELSE FALSE,
        nb |-> <<i, j - 1>>, d2 |-> dy * dy],
       [on |-> IF j < ny - 1 THEN active[<<i, j + 1>>] ELSE FALSE,
        nb |-> <<i, j + 1>>, d2 |-> dy * dy] >>

build_conductance_matrix(nx, ny, dx, dy, T, active) ==
    LET N == nx * ny
        Row(k) ==
          LET i  == k \div ny
              j  == k % ny
              st == Stencil(nx, ny, dx, dy, active, i, j)
              Cd(d) == Conductance(T[<<i, j>>], T[st[d].nb], st[d].d2)
              On == {d \in 1..4 : st[d].on}
          IN  [c \in 0..(N - 1) |->
                 IF ~active[<<i, j>>] THEN QZero
                 ELSE IF c = k
                      THEN QSum([d \in On |-> Cd(d)], On)
                      ELSE LET Dc == {d \in On : st[d].nb[1] * ny + st[d].nb[2] = c}
                           IN  QNeg[QSum([d \in Dc |-> Cd(d)], Dc)]]
    IN  [k \in 0..(N - 1) |-> Row(k)]

\* ------------------------------------------------------------------------
\* ImplicitEulerStepper.build_system: A_eff = dt*A + diag(C), b = C*h_old + dt*W
\* ------------------------------------------------------------------------
build_system(C, h_old, dt, A, W, N) ==
    [A_eff |-> [k \in 0..(N - 1) |-> [c \in 0..(N - 1) |->
                   QAdd[QMul[QI(dt), A[k][c]], IF c = k THEN C[k] ELSE QZero]]],
     b     |-> [k \in 0..(N - 1) |->
                   QAdd[QMul[C[k], h_old[k]], QMul[QI(dt), W[k]]]]]

\* ------------------------------------------------------------------------
\* Boundary conditions (cells are linear indices)
\* ------------------------------------------------------------------------
IdentityRow(k, N) == [c \in 0..(N - 1) |-> IF c = k THEN QOne ELSE QZero]

\* a Dirichlet imposition that adds the head to the RHS instead of storing it
DirichletBC_apply_Additive(cells, head_value, A, b, N) ==
    [A |-> [k \in 0..(N - 1) |->
              IF k \in SeqToSet(cells) THEN IdentityRow(k, N) ELSE A[k]],
     b |-> [k \in 0..(N - 1) |->
              IF k \in SeqToSet(cells) THEN QAdd[b[k], head_value] ELSE b[k]]]

\* DirichletBC.apply
DirichletBC_apply(cells, head_value, A, b, N) ==
    [A |-> [k \in 0..(N - 1) |->
              IF k \in SeqToSet(cells) THEN IdentityRow(k, N) ELSE A[k]],
     b |-> [k \in 0..(N - 1) |->
              IF k \in SeqToSet(cells) THEN head_value ELSE b[k]]]

\* GeneralHeadBC.apply and RiverBC.apply: one addition per listed cell
GeneralHeadBC_apply(cells, C, hb, A, b, N) ==
    [A |-> [k \in 0..(N - 1) |-> [c \in 0..(N - 1) |->
              IF c = k
              THEN QAdd[A[k][c], QMul[QI(CountIn(cells, k)), C]]
              ELSE A[k][c]]],
     b |-> [k \in 0..(N - 1) |->
              QAdd[b[k], QMul[QI(CountIn(cells, k)), QMul[C, hb]]]]]

\* NeumannBC.apply: b[idx] += flux, A untouched
NeumannBC_apply(cells, flux, A, b, N) ==
    [A |-> A,
     b |-> [k \in 0..(N - 1) |->
              QAdd[b[k], QMul[QI(CountIn(cells, k)), flux]]]]

\* ------------------------------------------------------------------------
\* Theis analytical drawdown (backend/validation/theis.py)
\* ------------------------------------------------------------------------
\* theis_W: the series -gamma - ln(u) + u - u^2/(2*2!) + ... tabulated to one
\* decimal at the decades of u (W(1)=0.2, W(0.1)=1.8, W(0.01)=4.0, ...);
\* raises for u <= 0
theis_W(u) ==
    IF QLe[u, QZero] THEN [ok |-> FALSE, W |-> QZero]
    ELSE [ok |-> TRUE,
          W  |-> IF QLe[QOne, u] THEN Rat[2, 10]
                 ELSE IF QLe[Rat[1, 10], u] THEN Rat[18, 10]
                 ELSE IF QLe[Rat[1, 100], u] THEN Rat[40, 10]
                 ELSE IF QLe[Rat[1, 1000], u] THEN Rat[63, 10]
                 ELSE Rat[86, 10]]

\* theis_drawdown(Q, T, S, r, t) with the distance given by its square rsq;
\* s = Q/(4*pi*T) * W(r^2*S/(4*T*t)), pi taken as 22/7; raises for t <= 0, r <= 0
theis_drawdown(Q, T, S, rsq, t) ==
    IF t <= 0 \/ QLe[rsq, QZero] THEN [ok |-> FALSE, s |-> QZero]
    ELSE LET u == QDiv[QMul[rsq, QI(S)], QI(4 * T * t)]
             w == theis_W(u)
         IN  [ok |-> w.ok,
              s  |-> QMul[QDiv[QI(7 * Q), QI(88 * T)], w.W]]

\* squared distance used by TheisDirichletBC.update:
\* r = hypot((i-wi)*dx, (j-wj)*dy), r_eff = max(r, 0.5*min(dx, dy))
theis_rsq(ij, w, dx, dy) ==
    QI(((ij[1] - w.i) * dx) * ((ij[1] - w.i) * dx)
       + ((ij[2] - w.j) * dy) * ((ij[2] - w.j) * dy))

theis_reff_sq(ij, w, dx, dy) ==
    LET r2 == theis_rsq(ij, w, dx, dy)
        mn == IF dx < dy THEN dx ELSE dy
        fl == Rat[mn * mn, 4]
    IN  IF QLt[r2, fl] THEN fl ELSE r2

\* an update that passes the configured (signed) rate to theis_drawdown
TheisDirichletBC_update_Signed(bc, t) ==
    LET n  == Len(bc.cell_coords)
        Wn == 1..Len(bc.wells)
        dd(idx, w) == theis_drawdown(bc.wells[w].Q, bc.T, bc.S,
                         theis_reff_sq(bc.cell_coords[idx], bc.wells[w], bc.dx, bc.dy), t)
    IN  IF t <= 0
        THEN [ok |-> TRUE, heads |-> [idx \in 1..n |-> QI(bc.head0)]]
        ELSE [ok    |-> \A idx \in 1..n : \A w \in Wn : dd(idx, w).ok,
              heads |-> [idx \in 1..n |->
                           QSub[QI(bc.head0), QSum([w \in Wn |-> dd(idx, w).s], Wn)]]]

\* TheisDirichletBC.update(t): the new current_heads, or a raise of the
\* drawdown collaborator. bc = [cells, cell_coords, wells, T, S, dx, dy, head0]
TheisDirichletBC_update(bc, t) ==
    LET n  == Len(bc.cell_coords)
        Wn == 1..Len(bc.wells)
        dd(idx, w) == theis_drawdown(Abs(bc.wells[w].Q), bc.T, bc.S,
                         theis_reff_sq(bc.cell_coords[idx], bc.wells[w], bc.dx, bc.dy), t)
    IN  IF t <= 0
        THEN [ok |-> TRUE, heads |-> [idx \in 1..n |-> QI(bc.head0)]]
        ELSE [ok    |-> \A idx \in 1..n : \A w \in Wn : dd(idx, w).ok,
              heads |-> [idx \in 1..n |->
                           QSub[QI(bc.head0), QSum([w \in Wn |-> dd(idx, w).s], Wn)]]]

\* TheisDirichletBC.apply: identity rows, RHS = current head (the last listed
\* position of a cell wins)
TheisDirichletBC_apply(cells, cur, A, b, N) ==
    LET last(k) == SetMax({n \in 1..Len(cells) : n <= Len(cur) /\ cells[n] = k})
        hit(k)  == \E n \in 1..Len(cells) : n <= Len(cur) /\ cells[n] = k
    IN  [A |-> [k \in 0..(N - 1) |-> IF hit(k) THEN IdentityRow(k, N) ELSE A[k]],
         b |-> [k \in 0..(N - 1) |-> IF hit(k) THEN cur[last(k)] ELSE b[k]]]

\* _perimeter_cells(nx, ny): linear indices and (i, j) pairs, in code order
perimeter_cells(nx, ny) ==
    LET top == [n \in 1..ny |-> <<0, n - 1>>]
        bot == IF nx > 1 THEN [n \in 1..ny |-> <<nx - 1, n - 1>>] ELSE <<>>
        nv  == IF nx > 2 THEN 2 * (nx - 2) ELSE 0
        ver == [n \in 1..nv |->
                  IF n % 2 = 1 THEN <<1 + (n - 1) \div 2, 0>>
                  ELSE <<1 + (n - 1) \div 2, ny - 1>>]
        co  == top \o bot \o ver
    IN  [cells  |-> [n \in 1..Len(co) |-> co[n][1] * ny + co[n][2]],
         coords |-> co]

\* ------------------------------------------------------------------------
\* TransientModel and the per-step vectors
\* A model is [nx, ny, dx, dy, T, S, h0, active, wells, bcs, recharge, dt, steps];
\* wells are [i, j, Q]; boundary conditions are [kind, cells, value, C]
\* ------------------------------------------------------------------------
NCells(m) == m.nx * m.ny

\* TransientModel.transmissivity: np.full((nx, ny), T)
transmissivity(m) == [c \in Cells(m.nx, m.ny) |-> m.T]

\* TransientModel.h0 for a scalar initial head, flattened row-major
InitialHead(m) == [k \in 0..(NCells(m) - 1) |-> QI(m.h0)]

\* TransientModel.get_recharge_field(t): None, or the scalar expanded to the grid
get_recharge_field(m, t) ==
    [set |-> m.recharge.set,
     R   |-> [c \in Cells(m.nx, m.ny) |-> QI(m.recharge.R)]]

\* Storage(model).vector(): S (confined), zero at inactive cells
Storage_vector(m) ==
    [k \in 0..(NCells(m) - 1) |->
        IF m.active[<<k \div m.ny, k % m.ny>>] THEN QI(m.S) ELSE QZero]

\* Storage.compute_storage(model, h): volumetric storage coefficient S*dx*dy
compute_storage(m, hcur) ==
    [k \in 0..(NCells(m) - 1) |->
        IF m.active[<<k \div m.ny, k % m.ny>>]
        THEN QI(m.S * m.dx * m.dy) ELSE QZero]

\* SourceSink.build_W_vector(model, t): well rates plus recharge times cell area
build_W_vector(m, t) ==
    LET Wn == 1..Len(m.wells)
        rf == get_recharge_field(m, t)
    IN  [k \in 0..(NCells(m) - 1) |->
           LET at == {w \in Wn : m.wells[w].i * m.ny + m.wells[w].j = k}
           IN  QAdd[QI(SumInt([w \in at |-> m.wells[w].Q], at)),
                    IF rf.set
                    THEN QMul[rf.R[<<k \div m.ny, k % m.ny>>], QI(m.dx * m.dy)]
                    ELSE QZero]]

\* ------------------------------------------------------------------------
\* BudgetEngine (budget.py)
\* ------------------------------------------------------------------------
\* compute_wells: (inflow, outflow), Q >= 0 counted as inflow
compute_wells(m) ==
    LET Wn  == 1..Len(m.wells)
        pos == {w \in Wn : m.wells[w].Q >= 0}
        neg == Wn \ pos
    IN  [in  |-> QI(SumInt([w \in pos |-> m.wells[w].Q], pos)),
         out |-> QI(SumInt([w \in neg |-> -m.wells[w].Q], neg))]

\* compute_recharge
compute_recharge(m, rf) ==
    IF ~rf.set THEN [in |-> QZero, out |-> QZero]
    ELSE [in  |-> QMul[QSum(rf.R, Cells(m.nx, m.ny)), QI(m.dx * m.dy)],
          out |-> QZero]

\* compute_storage_change: q = sum(S*dh)*area/dt, q >= 0 reported as inflow
compute_storage_change(m, h_old, h_new, dt) ==
    LET Sv == Storage_vector(m)
        D  == 0..(NCells(m) - 1)
        dV == QMul[QSum([k \in D |-> QMul[Sv[k], QSub[h_new[k], h_old[k]]]], D),
                   QI(m.dx * m.dy)]
        q  == QDiv[dV, QI(dt)]
    IN  IF QLe[QZero, q] THEN [in |-> q, out |-> QZero]
        ELSE [in |-> QZero, out |-> QNeg[q]]

\* compute_bc_fluxes: conductance boundaries only (those with attribute C)
compute_bc_fluxes(m, hcur) ==
    LET Bn == {n \in 1..Len(m.bcs) : m.bcs[n].kind \in {"ghb", "river"}}
        P  == {<<n, c>> \in Bn \X (1..NCells(m)) : c <= Len(m.bcs[n].cells)}
        q(p) == QMul[QMul[QI(m.bcs[p[1]].C),
                          QSub[QI(m.bcs[p[1]].value), hcur[m.bcs[p[1]].cells[p[2]]]]],
                     QI(m.dx * m.dy)]
        pos == {p \in P : QLe[QZero, q(p)]}
        neg == P \ pos
    IN  [in  |-> QSum([p \in pos |-> q(p)], pos),
         out |-> QSum([p \in neg |-> QNeg[q(p)]], neg)]

\* record_step(step, t, h_new, h_old, dt): the appended record
record_step(m, stp, tm, h_new, h_old, dt) ==
    LET w  == compute_wells(m)
        r  == compute_recharge(m, get_recharge_field(m, tm))
        bf == compute_bc_fluxes(m, h_new)
        st == compute_storage_change(m, h_old, h_new, dt)
        total_in  == QAdd[QAdd[w.in, r.in], QAdd[bf.in, st.in]]
        total_out == QAdd[QAdd[w.out, r.out], QAdd[bf.out, st.out]]
        imbalance == QSub[total_in, total_out]
    IN  [step |-> stp, time |-> tm, dt |-> dt,
         wells_in |-> w.in, wells_out |-> w.out,
         storage_in |-> st.in, storage_out |-> st.out,
         total_in |-> total_in, total_out |-> total_out,
         imbalance |-> imbalance,
         pct_error |-> IF total_in = QZero THEN QZero
                       ELSE QMul[QDiv[QAbs[imbalance], QAbs[total_in]], QI(100)]]

\* ------------------------------------------------------------------------
\* State
\* ------------------------------------------------------------------------
VARIABLES
    model,          \* the TransientModel handed to TransientSolver
    storage,        \* model.storage (<<>> is None)
    h,              \* run(): current head, flattened
    heads,          \* run(): head history
    t,              \* run(): simulation time
    step,           \* run(): step counter
    run_pc,         \* run(): position, "loop" | "bc" | "done" | "raised" | "off"
    A_eff,          \* run(): system matrix of the step
    b,              \* run(): right-hand side of the step
    bc_i,           \* run(): number of boundary conditions handled in the step
    current_heads,  \* TheisDirichletBC.current_heads, per boundary condition
    bc_log,         \* boundary-condition calls made in the current step
    records,        \* BudgetEngine.records
    dbc,            \* DirichletBC.apply harness
    thb,            \* TheisDirichletBC harness
    sor,            \* solve_iterative call
    ss,             \* SteadyStateSolver.solve call
    srcsink,        \* a SourceSink object and its vector_at_time calls
    bcf,            \* BCFactory.create call
    asm,            \* matrix assembly calls on one configuration
    grd,            \* Grid.get_cell_index / Well.assign_to_grid call
    fts,            \* a FixedTimeStepper and its times() call
    obs,            \* an ObservationRecorder and the record calls made on it
    stp,            \* a build_system call of each time integrator
    pcells,         \* cell indexing of the two solver paths on one grid
    wrap            \* the clock of a run_transient_solver call, in binary64

vars == <<model, storage, h, heads, t, step, run_pc, A_eff, b, bc_i,
          current_heads, bc_log, records, dbc, thb, sor, ss, srcsink, bcf, asm, grd,
          fts, obs, stp, pcells, wrap>>

runVars == <<model, storage, h, heads, t, step, run_pc, A_eff, b, bc_i,
             current_heads, bc_log, records>>

moreVars == <<fts, obs, stp, pcells, wrap>>

unitVars == <<srcsink, bcf, asm, grd, moreVars>>

Idle == [pc |-> "off"]

MoreIdle == fts = Idle /\ obs = Idle /\ stp = Idle /\ pcells = Idle /\ wrap = Idle

UnitsIdle == srcsink = Idle /\ bcf = Idle /\ asm = Idle /\ grd = Idle /\ MoreIdle

RunIdle ==
    /\ model = Idle /\ storage = <<>> /\ h = <<>> /\ heads = <<>>
    /\ t = 0 /\ step = 0 /\ run_pc = "off" /\ A_eff = <<>> /\ b = <<>>
    /\ bc_i = 0 /\ current_heads = <<>> /\ bc_log = <<>> /\ records = <<>>

\* ------------------------------------------------------------------------
\* Transient models explored
\* ------------------------------------------------------------------------
MaxNx == 2
MaxNy == 3
MaxSteps == 2
MaxCells == 6
MaxSmallCells == 4
budget_interval == 10

BC(kind, cells, value, C) == [kind |-> kind, cells |-> cells, value |-> value, C |-> C]

\* the cells (i, j) for i in range(nx), normalised by _normalize_cells
ColumnCells(nx, ny, j) == [n \in 1..nx |-> cell_to_linear_index(<<n - 1, j>>, ny)]

HeadPairs == {<<4, 1>>, <<1, 3>>}

BCLists(nx, ny) ==
    LET left  == ColumnCells(nx, ny, 0)
        right == ColumnCells(nx, ny, ny - 1)
        per   == perimeter_cells(nx, ny).cells
    IN  {<<>>,
         <<BC("theis", per, 0, 0)>>,
         <<BC("dirichlet", left, 3, 0), BC("theis", per, 0, 0)>>,
         <<BC("ghb", <<0>>, 2, 1)>>,
         <<BC("river", <<0, 0>>, 1, 2), BC("dirichlet", right, 3, 0)>>,
         <<BC("neumann", <<0>>, 1, 0)>>,
         <<BC("dirichlet", left, 3, 0), BC("flux", <<0>>, 1, 0)>>,
         <<BC("dirichlet", left, 3, 0), BC("ghb", <<0>>, 2, 1)>>}
        \cup {<<BC("dirichlet", left, p[1], 0), BC("dirichlet", right, p[2], 0)>> :
                  p \in HeadPairs}
        \cup {<<BC("dirichlet", right, p[2], 0), BC("dirichlet", left, p[1], 0)>> :
                  p \in HeadPairs}

WellLists == {<<>>, <<[i |-> 0, j |-> 0, Q |-> -2]>>, <<[i |-> 0, j |-> 0, Q |-> 2]>>}

\* cell spacing and step count of a run: unit spacing and one step on every
\* grid; on small grids also dx # dy, and runs of several steps
RunShapes(nx, ny) ==
    {<<1, 1, 1>>}
    \cup (IF nx * ny <= MaxSmallCells
          THEN {<<2, 1, 1>>} \cup {<<1, 1, n>> : n \in 2..MaxSteps}
          ELSE {})

\* model.active: all cells active (the constructor's mask), or the last cell
\* switched off by the caller
ActiveMasks(nx, ny) ==
    {[c \in Cells(nx, ny) |-> TRUE], [c \in Cells(nx, ny) |-> c # <<nx - 1, ny - 1>>]}

\* masks with an inactive cell are explored on one-step runs with unit
\* spacing, dt = 1 and no recharge
MaskExplored(m) ==
    (\E c \in Cells(m.nx, m.ny) : ~m.active[c]) =>
        (m.steps = 1 /\ m.dx = 1 /\ m.dt = 1 /\ ~m.recharge.set)

ModelsOn(nx, ny) ==
    {m \in {[nx |-> nx, ny |-> ny, dx |-> d[1], dy |-> d[2], T |-> 1, S |-> S,
             h0 |-> 2, active |-> a,
             wells |-> w, bcs |-> bl, recharge |-> r, dt |-> dt, steps |-> d[3]] :
               d \in RunShapes(nx, ny), S \in {0, 1}, a \in ActiveMasks(nx, ny),
               w \in WellLists, bl \in BCLists(nx, ny),
               r \in {[set |-> FALSE, R |-> 0], [set |-> TRUE, R |-> 1]},
               dt \in {1, 2}} : MaskExplored(m)}

\* grids of at most MaxCells cells
Grids == {g \in (1..MaxNx) \X (1..MaxNy) : g[1] * g[2] <= MaxCells}

TransientModels == UNION {ModelsOn(g[1], g[2]) : g \in Grids}

\* parameters TheisDirichletBC takes from the run configuration
\* (run_transient_solver: wells, T, S, dx, dy, head0 = initial_head)
TheisOf(m, bc) ==
    [cells |-> bc.cells,
     cell_coords |-> [n \in 1..Len(bc.cells) |-> <<bc.cells[n] \div m.ny, bc.cells[n] % m.ny>>],
     wells |-> m.wells, T |-> m.T, S |-> m.S, dx |-> m.dx, dy |-> m.dy, head0 |-> m.h0]

\* ------------------------------------------------------------------------
\* TransientSolver.run
\* ------------------------------------------------------------------------
t_end(m) == m.dt * m.steps

OthersIdleForRun == dbc = Idle /\ thb = Idle /\ sor = Idle /\ ss = Idle /\ UnitsIdle

\* construction of the model and lines 43-50 of run()
RunInit ==
    /\ model \in TransientModels
    /\ storage = <<>>
    /\ h = InitialHead(model)
    /\ heads = <<InitialHead(model)>>
    /\ t = 0
    /\ step = 0
    /\ run_pc = "loop"
    /\ A_eff = <<>>
    /\ b = <<>>
    /\ bc_i = 0
    /\ current_heads = [n \in 1..Len(model.bcs) |->
                           [c \in 1..Len(model.bcs[n].cells) |-> QI(model.h0)]]
    /\ bc_log = <<>>
    /\ records = <<>>
    /\ OthersIdleForRun

\* a loop body whose build_system comes before the assignment of
\* model.storage: it reads the attribute left by the previous step, None
\* (AttributeError on .flatten()) in the first step
RunStepBuild_StaleStorage ==
    /\ run_pc = "loop"
    /\ t < t_end(model)
    /\ IF storage = <<>>
       THEN /\ run_pc' = "raised"
            /\ UNCHANGED <<storage, A_eff, b, bc_i, bc_log>>
       ELSE /\ LET m   == model
                   A   == build_conductance_matrix(m.nx, m.ny, m.dx, m.dy,
                                                   transmissivity(m), m.active)
                   W   == build_W_vector(m, t)
                   sys == build_system(storage, h, m.dt, A, W, NCells(m))
               IN  /\ A_eff' = sys.A_eff
                   /\ b' = sys.b
                   /\ storage' = compute_storage(m, h)
            /\ bc_i' = 0
            /\ bc_log' = <<>>
            /\ run_pc' = "bc"
    /\ UNCHANGED <<model, h, heads, t, step, current_heads, records, dbc, thb, sor, ss, unitVars>>

\* loop head and lines 57-76: A, W, then model.storage is assigned (line 67)
\* and build_system reads model.storage (time_stepper.py line 42)
RunStepBuild ==
    /\ run_pc = "loop"
    /\ t < t_end(model)
    /\ LET m   == model
           A   == build_conductance_matrix(m.nx, m.ny, m.dx, m.dy,
                                           transmissivity(m), m.active)
           W   == build_W_vector(m, t)
       IN  /\ storage' = compute_storage(m, h)
           /\ LET sys == build_system(storage', h, m.dt, A, W, NCells(m))
              IN  /\ A_eff' = sys.A_eff
                  /\ b' = sys.b
    /\ bc_i' = 0
    /\ bc_log' = <<>>
    /\ run_pc' = "bc"
    /\ UNCHANGED <<model, h, heads, t, step, current_heads, records, dbc, thb, sor, ss, unitVars>>

\* one pass of the loop of lines 81-88: update(t + dt) if the object has it,
\* then bc.apply(A_eff, b); an object without apply raises AttributeError
RunApplyBC ==
    /\ run_pc = "bc"
    /\ bc_i < Len(model.bcs)
    /\ LET n  == bc_i + 1
           bc == model.bcs[n]
           N  == NCells(model)
           up == TheisDirichletBC_update(TheisOf(model, bc), t + model.dt)
           r  == CASE bc.kind = "dirichlet" ->
                        DirichletBC_apply(bc.cells, QI(bc.value), A_eff, b, N)
                   [] bc.kind \in {"ghb", "river"} ->
                        GeneralHeadBC_apply(bc.cells, QI(bc.C), QI(bc.value), A_eff, b, N)
                   [] bc.kind = "neumann" ->
                        NeumannBC_apply(bc.cells, QI(bc.value), A_eff, b, N)
                   [] bc.kind = "theis" ->
                        TheisDirichletBC_apply(bc.cells, up.heads, A_eff, b, N)
                   [] OTHER -> [A |-> A_eff, b |-> b]
       IN  IF bc.kind = "theis" /\ ~up.ok
           THEN /\ run_pc' = "raised"
                /\ bc_log' = Append(bc_log, <<"update", n>>)
                /\ UNCHANGED <<A_eff, b, bc_i, current_heads>>
           ELSE IF bc.kind = "flux"
           THEN /\ run_pc' = "raised"
                /\ UNCHANGED <<A_eff, b, bc_i, current_heads, bc_log>>
           ELSE /\ A_eff' = r.A
                /\ b' = r.b
                /\ bc_i' = n
                /\ current_heads' = IF bc.kind = "theis"
                                    THEN [current_heads EXCEPT ![n] = up.heads]
                                    ELSE current_heads
                /\ bc_log' = IF bc.kind = "theis"
                             THEN bc_log \o << <<"update", n>>, <<"apply", n>> >>
                             ELSE Append(bc_log, <<"apply", n>>)
                /\ run_pc' = "bc"
    /\ UNCHANGED <<model, storage, h, heads, t, step, records, dbc, thb, sor, ss, unitVars>>

\* lines 93-112: np.linalg.solve (raises LinAlgError on a singular matrix),
\* the periodic budget summary, h <- h_new, history, t += dt
RunSolve ==
    /\ run_pc = "bc"
    /\ bc_i = Len(model.bcs)
    /\ LET sol == linalg_solve(A_eff, b, NCells(model))
       IN  IF ~sol.ok
           THEN /\ run_pc' = "raised"
                /\ UNCHANGED <<h, heads, t, step, records>>
           ELSE /\ h' = sol.x
                /\ heads' = Append(heads, sol.x)
                /\ records' = IF step % budget_interval = 0
                              THEN Append(records,
                                     record_step(model, step, t, sol.x, h, model.dt))
                              ELSE records
                /\ t' = t + model.dt
                /\ step' = step + 1
                /\ run_pc' = "loop"
    /\ UNCHANGED <<model, storage, A_eff, b, bc_i, current_heads, bc_log, dbc, thb, sor, ss, unitVars>>

\* line 114: return np.array(heads), self.logs
RunReturn ==
    /\ run_pc = "loop"
    /\ ~(t < t_end(model))
    /\ run_pc' = "done"
    /\ UNCHANGED <<model, storage, h, heads, t, step, A_eff, b, bc_i,
                   current_heads, bc_log, records, dbc, thb, sor, ss, unitVars>>

RunNext == RunStepBuild \/ RunApplyBC \/ RunSolve \/ RunReturn

SpecRun == RunInit /\ [][RunNext]_vars

\* ------------------------------------------------------------------------
\* Properties of the transient run (checked under SpecRun)
\* ------------------------------------------------------------------------
DirichletOn(bc, cells) == bc.kind = "dirichlet" /\ bc.cells = cells

\* the configuration of the steady Dirichlet test: S = 0, no wells, no
\* recharge, head L on the cells (i, 0) and head R on the cells (i, ny-1)
IsStripModel(m) ==
    /\ m.S = 0 /\ m.wells = <<>> /\ ~m.recharge.set /\ m.ny >= 2
    /\ \A c \in Cells(m.nx, m.ny) : m.active[c]
    /\ Len(m.bcs) = 2
    /\ \E p \in {<<1, 2>>, <<2, 1>>} :
          /\ DirichletOn(m.bcs[p[1]], ColumnCells(m.nx, m.ny, 0))
          /\ DirichletOn(m.bcs[p[2]], ColumnCells(m.nx, m.ny, m.ny - 1))

StripLeft(m) ==
    LET n == CHOOSE q \in 1..2 : DirichletOn(m.bcs[q], ColumnCells(m.nx, m.ny, 0))
    IN  m.bcs[n].value

StripRight(m) ==
    LET n == CHOOSE q \in 1..2 :
                 DirichletOn(m.bcs[q], ColumnCells(m.nx, m.ny, m.ny - 1))
    IN  m.bcs[n].value

\* h[i, j] = L + j/(ny-1)*(R-L)
LinearProfile(m) ==
    [k \in 0..(NCells(m) - 1) |->
        QAdd[QI(StripLeft(m)),
             QMul[Rat[k % m.ny, m.ny - 1], QI(StripRight(m) - StripLeft(m))]]]

BudgetTolPct == 5

\* C2: every budget record is balanced: |total_in - total_out| is at most a
\* few percent of total_in, and pct_error is that imbalance in percent of
\* total_in.
Claim_C2_BudgetBalanced ==
    \A n \in 1..Len(records) :
        LET r == records[n]
        IN  /\ QLe[QMul[QAbs[r.imbalance], QI(100)],
                   QMul[QI(BudgetTolPct), r.total_in]]
            /\ QMul[r.pct_error, r.total_in] = QMul[QAbs[r.imbalance], QI(100)]

\* C2, the case named by the claim: one extraction well, no recharge, no
\* boundary condition; the heads fall and the record should balance.
Claim_C2_SingleWell ==
    (/\ Len(model.wells) = 1 /\ model.wells[1].Q < 0
     /\ ~model.recharge.set /\ model.bcs = <<>> /\ model.S > 0) =>
        \A n \in 1..Len(records) :
            QLe[QMul[QAbs[records[n].imbalance], QI(100)],
                QMul[QI(BudgetTolPct), records[n].total_in]]

PureFlux(bc) == bc.kind = "flux"

\* C9: in every step all update(t) calls precede all apply(A, b) calls, all
\* apply calls precede all apply_to_rhs(b, t) calls, and every pure-flux
\* boundary condition is applied to b in the step.
Claim_C9_EvaluationOrder ==
    /\ \A p, q \in 1..Len(bc_log) :
          p < q => /\ ~(bc_log[p][1] = "apply" /\ bc_log[q][1] = "update")
                   /\ ~(bc_log[p][1] = "apply_to_rhs" /\ bc_log[q][1] # "apply_to_rhs")
    /\ (run_pc = "bc" /\ bc_i = Len(model.bcs)) =>
          \A n \in 1..Len(model.bcs) :
              PureFlux(model.bcs[n]) =>
                  \E p \in 1..Len(bc_log) : bc_log[p] = <<"apply_to_rhs", n>>
    /\ ~(/\ run_pc = "raised" /\ bc_i < Len(model.bcs)
         /\ PureFlux(model.bcs[bc_i + 1]))

\* C9, the part about pure-flux boundary conditions alone
Claim_C9_FluxApplied ==
    ~(/\ run_pc = "raised" /\ bc_i < Len(model.bcs)
      /\ PureFlux(model.bcs[bc_i + 1]))

\* ------------------------------------------------------------------------
\* DirichletBC.apply called repeatedly on one system (A, b)
\* ------------------------------------------------------------------------
MaxDirichletN == 3
MaxApplies == 2

\* rows a matrix is made of: constant rows, a row with distinct entries, and
\* a unit row
SampleRows(N) ==
    {[c \in 0..(N - 1) |-> 2], [c \in 0..(N - 1) |-> -1],
     [c \in 0..(N - 1) |-> c - 1], [c \in 0..(N - 1) |-> IF c = 0 THEN 1 ELSE 0]}

DirichletSystems ==
    UNION {
      {[N |-> N, cells |-> cs, head_value |-> QI(hv),
        A0 |-> [k \in 0..(N - 1) |-> [c \in 0..(N - 1) |-> QI(A[k][c])]],
        b0 |-> [k \in 0..(N - 1) |-> QI(bb[k])]] :
          A  \in [0..(N - 1) -> SampleRows(N)],
          bb \in [0..(N - 1) -> {0, 5}],
          cs \in {<<>>, <<0>>, <<1>>, <<N - 1, 0>>, <<0, 0>>, <<0, 1>>},
          hv \in {3}} : N \in 2..MaxDirichletN}

DbcInit ==
    /\ RunIdle /\ UnitsIdle /\ thb = Idle /\ sor = Idle /\ ss = Idle
    /\ \E sys \in DirichletSystems :
          dbc = [pc |-> "ready", sys |-> sys, A |-> sys.A0, b |-> sys.b0,
                 hist |-> <<>>]

\* bc.apply(A, b) on the arrays left by the previous call
DbcApply ==
    /\ dbc.pc = "ready"
    /\ Len(dbc.hist) < MaxApplies
    /\ LET r == DirichletBC_apply(dbc.sys.cells, dbc.sys.head_value,
                                  dbc.A, dbc.b, dbc.sys.N)
       IN  dbc' = [dbc EXCEPT !.A = r.A, !.b = r.b,
                              !.hist = Append(dbc.hist, r)]
    /\ UNCHANGED <<runVars, unitVars, thb, sor, ss>>

DbcNext == DbcApply

SpecDirichlet == DbcInit /\ [][DbcNext]_vars

\* C8: DirichletBC.apply is idempotent; after it every target row is the
\* identity row with RHS = head_value, and every other row and RHS entry is
\* what it was before the first call.
Thm_C8_DirichletIdempotent ==
    LET sys == dbc.sys
        Tg  == SeqToSet(sys.cells)
    IN  /\ \A n \in 2..Len(dbc.hist) : dbc.hist[n] = dbc.hist[1]
        /\ \A n \in 1..Len(dbc.hist) : \A k \in 0..(sys.N - 1) :
              IF k \in Tg
              THEN /\ \A c \in 0..(sys.N - 1) :
                         dbc.hist[n].A[k][c] = IF c = k THEN QOne ELSE QZero
                   /\ dbc.hist[n].b[k] = sys.head_value
              ELSE /\ dbc.hist[n].A[k] = sys.A0[k]
                   /\ dbc.hist[n].b[k] = sys.b0[k]

Wit_C8_DirichletIdempotent ==
    /\ Len(dbc.hist) = 2 /\ dbc.sys.N = 3 /\ dbc.sys.cells = <<2, 0>>
    /\ dbc.hist[2] = dbc.hist[1]
    /\ dbc.A # dbc.sys.A0 /\ dbc.b # dbc.sys.b0
    /\ dbc.A[1] = dbc.sys.A0[1]

\* ------------------------------------------------------------------------
\* TheisDirichletBC: update(t) and apply(A, b) on a square grid's perimeter
\* ------------------------------------------------------------------------
MaxTheisGrid == 3
MaxTheisCalls == 3

TheisWellLists ==
    {<<>>,
     <<[i |-> 1, j |-> 1, Q |-> -2]>>,
     <<[i |-> 1, j |-> 1, Q |-> 2]>>,
     <<[i |-> 0, j |-> 0, Q |-> 3]>>,
     <<[i |-> 0, j |-> 1, Q |-> -2], [i |-> 1, j |-> 1, Q |-> 3]>>}

TheisBCs ==
    UNION {
      {[n |-> n,
        cells |-> perimeter_cells(n, n).cells,
        cell_coords |-> perimeter_cells(n, n).coords,
        wells |-> w, T |-> T, S |-> S, dx |-> d[1], dy |-> d[2], head0 |-> 5] :
          w \in TheisWellLists, T \in {1, 2}, S \in {0, 1},
          d \in {<<1, 1>>, <<2, 1>>, <<1, 2>>}} : n \in 2..MaxTheisGrid}

TheisTimes == {-1, 0, 1, 3}

\* TheisDirichletBC.__init__: current_heads = full(len(cells), head0); the
\* arrays handed to apply start as a full matrix
ThInit ==
    /\ RunIdle /\ UnitsIdle /\ dbc = Idle /\ sor = Idle /\ ss = Idle
    /\ \E bc \in TheisBCs :
          thb = [pc |-> "ready", bc |-> bc, calls |-> 0, last |-> "new", t |-> 0,
                 cur |-> [idx \in 1..Len(bc.cells) |-> QI(bc.head0)],
                 A |-> [k \in 0..(bc.n * bc.n - 1) |->
                          [c \in 0..(bc.n * bc.n - 1) |-> QI(2 - c)]],
                 b |-> [k \in 0..(bc.n * bc.n - 1) |-> QI(-1)]]

\* bc.update(tm); a ValueError of the drawdown function leaves the object
\* as it was and ends the call sequence
ThUpdate ==
    /\ thb.pc = "ready"
    /\ thb.calls < MaxTheisCalls
    /\ \E tm \in TheisTimes :
          LET up == TheisDirichletBC_update(thb.bc, tm)
          IN  thb' = IF up.ok
                     THEN [thb EXCEPT !.cur = up.heads, !.t = tm, !.last = "update",
                                      !.calls = thb.calls + 1]
                     ELSE [thb EXCEPT !.pc = "raised", !.t = tm, !.last = "update",
                                      !.calls = thb.calls + 1]
    /\ UNCHANGED <<runVars, unitVars, dbc, sor, ss>>

\* bc.apply(A, b)
ThApply ==
    /\ thb.pc = "ready"
    /\ thb.calls < MaxTheisCalls
    /\ LET r == TheisDirichletBC_apply(thb.bc.cells, thb.cur, thb.A, thb.b,
                                       thb.bc.n * thb.bc.n)
       IN  thb' = [thb EXCEPT !.A = r.A, !.b = r.b, !.last = "apply",
                              !.calls = thb.calls + 1]
    /\ UNCHANGED <<runVars, unitVars, dbc, sor, ss>>

ThNext == ThUpdate \/ ThApply

SpecTheis == ThInit /\ [][ThNext]_vars

\* the drawdown of one well at one perimeter cell as update computes it:
\* magnitude of the rate, distance not below half the smaller cell width
ClampedDrawdown(bc, idx, w, tm) ==
    LET r2 == theis_rsq(bc.cell_coords[idx], bc.wells[w], bc.dx, bc.dy)
        mn == IF bc.dx < bc.dy THEN bc.dx ELSE bc.dy
        e2 == IF QLt[r2, Rat[mn * mn, 4]] THEN Rat[mn * mn, 4] ELSE r2
    IN  theis_drawdown(Abs(bc.wells[w].Q), bc.T, bc.S, e2, tm)

\* the drawdown of one well at one perimeter cell with the configured rate
\* and the plain distance
SignedDrawdown(bc, idx, w, tm) ==
    theis_drawdown(bc.wells[w].Q, bc.T, bc.S,
                   theis_rsq(bc.cell_coords[idx], bc.wells[w], bc.dx, bc.dy), tm)

AfterUpdate == thb.last = "update" /\ thb.pc = "ready"

AppliedRows ==
    thb.last = "apply" =>
        \A idx \in 1..Len(thb.bc.cells) :
            /\ thb.A[thb.bc.cells[idx]] = IdentityRow(thb.bc.cells[idx], thb.bc.n * thb.bc.n)
            /\ thb.b[thb.bc.cells[idx]] = thb.cur[idx]

NoEntry == [stored |-> FALSE, val |-> QZero]
Entry(x) == [stored |-> TRUE, val |-> x]

\* abs(diag) < 1e-20; for a ratio of 32-bit integers this is diag = 0
BelowDiagFloor(x) == x[1] = 0

\* a test that also skips rows whose diagonal magnitude is at most 1
SkipRow_UpToOne(e) == ~e.stored \/ QLe[QAbs[e.val], QOne]

\* line 52: diag is None or abs(diag) < 1e-20
SkipRow(e) == ~e.stored \/ BelowDiagFloor(e.val)

\* lines 43-50: sum of val * h[col] over the stored off-diagonal entries
SumNeighbors(A, hv, row, N) ==
    LET Cs == {c \in 0..(N - 1) : c # row /\ A[row][c].stored}
    IN  QSum([c \in Cs |-> QMul[A[row][c].val, hv[c]]], Cs)

\* lines 37-59 for one row: the new h, or h itself when the row is skipped
RowUpdate(A, bv, hv, row, N, w) ==
    IF SkipRow(A[row][row]) THEN hv
    ELSE LET h_gs == QDiv[QSub[bv[row], SumNeighbors(A, hv, row, N)],
                          A[row][row].val]
         IN  [hv EXCEPT ![row] = QAdd[QMul[QSub[QOne, w], hv[row]], QMul[w, h_gs]]]

\* a norm that takes the largest signed difference
Residual_Signed(hv, h_old, N) ==
    LET D == 0..(N - 1)
        m == CHOOSE k \in D : \A c \in D : QLe[QSub[hv[c], h_old[c]], QSub[hv[k], h_old[k]]]
    IN  QSub[hv[m], h_old[m]]

\* line 62: np.linalg.norm(h - h_old, ord=np.inf)
Residual(hv, h_old, N) ==
    LET D == 0..(N - 1)
        m == CHOOSE k \in D : \A c \in D :
                 QLe[QAbs[QSub[hv[c], h_old[c]]], QAbs[QSub[hv[k], h_old[k]]]]
    IN  QAbs[QSub[hv[m], h_old[m]]]

\* h.reshape((ny, nx)).T : head[i, j] = h[j*nx + i]
ReshapeT(hv, nx, ny) ==
    [ij \in (0..(nx - 1)) \X (0..(ny - 1)) |-> hv[ij[2] * nx + ij[1]]]

MaxSorN == 3
MaxSorSmallN == 2
MaxIter == 3

SorShapes == {g \in (1..MaxSorN) \X (1..MaxSorN) : g[1] * g[2] <= MaxSorN}

\* relaxation factors: Gauss-Seidel everywhere, the default w = 1.4 on the
\* small systems
SorRelaxations(N) == IF N <= MaxSorSmallN THEN {QOne, Rat[7, 5]} ELSE {QOne}

SorDiagonals(w) ==
    {NoEntry, Entry(QZero), Entry(QOne)} \cup (IF w = QOne THEN {Entry(QI(2))} ELSE {})

SorTolerances == {Rat[1, 2], Rat[1, 1000000]}

\* the arguments of one call: a tridiagonal pattern with diagonal dg, coupling
\* -1 between consecutive rows when off, and RHS bv, bv+1, bv, ...
SorSystem(nx, ny, w, dg, off, bv, mi, tol) ==
    [nx |-> nx, ny |-> ny, w |-> w, max_iter |-> mi, tol |-> tol,
     A |-> [k \in 0..(nx * ny - 1) |-> [c \in 0..(nx * ny - 1) |->
              IF c = k THEN dg[k]
              ELSE IF (c = k + 1 \/ k = c + 1) /\ off THEN Entry(QI(-1))
              ELSE NoEntry]],
     b |-> [k \in 0..(nx * ny - 1) |-> QI(bv + (k % 2))]]

\* lines 22-28: h = np.zeros(N)
SorInit ==
    /\ RunIdle /\ UnitsIdle /\ dbc = Idle /\ thb = Idle /\ ss = Idle
    /\ \E g \in SorShapes : \E w \in SorRelaxations(g[1] * g[2]) :
       \E dg \in [0..(g[1] * g[2] - 1) -> SorDiagonals(w)] :
       \E off \in BOOLEAN, bv \in {0, 1}, mi \in 0..MaxIter, tol \in SorTolerances :
          sor = [pc |-> "loop", it |-> 0, row |-> 0,
                 sys |-> SorSystem(g[1], g[2], w, dg, off, bv, mi, tol),
                 h |-> [k \in 0..(g[1] * g[2] - 1) |-> QZero],
                 h_old |-> [k \in 0..(g[1] * g[2] - 1) |-> QZero],
                 hs |-> <<>>, result |-> <<>>]

\* lines 31-33: next value of `it` from range(max_iter), h_old = h.copy()
SorBeginSweep ==
    /\ sor.pc = "loop"
    /\ sor.it < sor.sys.max_iter
    /\ sor' = [sor EXCEPT !.pc = "rows", !.row = 0, !.h_old = sor.h]
    /\ UNCHANGED <<runVars, unitVars, dbc, thb, ss>>

\* lines 36-59: one row of the sweep
SorRow ==
    /\ sor.pc = "rows"
    /\ sor.row < sor.sys.nx * sor.sys.ny
    /\ sor' = [sor EXCEPT !.h = RowUpdate(sor.sys.A, sor.sys.b, sor.h, sor.row,
                                          sor.sys.nx * sor.sys.ny, sor.sys.w),
                          !.row = sor.row + 1]
    /\ UNCHANGED <<runVars, unitVars, dbc, thb, ss>>

\* lines 62-67: residual after the last row; return it + 1 sweeps if below tol
SorCheck ==
    /\ sor.pc = "rows"
    /\ sor.row = sor.sys.nx * sor.sys.ny
    /\ LET sys == sor.sys
           res == Residual(sor.h, sor.h_old, sys.nx * sys.ny)
       IN  sor' = IF QLt[res, sys.tol]
                  THEN [sor EXCEPT !.hs = Append(sor.hs, sor.h),
                                   !.it = sor.it + 1, !.pc = "done",
                                   !.result = <<ReshapeT(sor.h, sys.nx, sys.ny),
                                                sor.it + 1, TRUE>>]
                  ELSE [sor EXCEPT !.hs = Append(sor.hs, sor.h),
                                   !.it = sor.it + 1, !.pc = "loop"]
    /\ UNCHANGED <<runVars, unitVars, dbc, thb, ss>>

\* line 70: the loop ran out
SorExhausted ==
    /\ sor.pc = "loop"
    /\ sor.it >= sor.sys.max_iter
    /\ sor' = [sor EXCEPT !.pc = "done",
                          !.result = <<ReshapeT(sor.h, sor.sys.nx, sor.sys.ny),
                                       sor.sys.max_iter, FALSE>>]
    /\ UNCHANGED <<runVars, unitVars, dbc, thb, ss>>

SorNext == SorBeginSweep \/ SorRow \/ SorCheck \/ SorExhausted

SpecSor == SorInit /\ [][SorNext]_vars /\ WF_vars(SorNext)

\* head vector before sweep n (n >= 1) of the current call
SorBefore(n) ==
    IF n = 1 THEN [k \in 0..(sor.sys.nx * sor.sys.ny - 1) |-> QZero] ELSE sor.hs[n - 1]

\* sweep n changed every component by less than tol
SorBelowTol(n) ==
    \A k \in 0..(sor.sys.nx * sor.sys.ny - 1) :
        QLt[QAbs[QSub[sor.hs[n][k], SorBefore(n)[k]]], sor.sys.tol]

SorReturnContract ==
    /\ sor.it <= sor.sys.max_iter
    /\ Len(sor.hs) = sor.it
    /\ sor.pc \in {"loop", "rows", "done"}
    /\ sor.pc # "done" => \A n \in 1..sor.it : ~SorBelowTol(n)
    /\ sor.pc = "done" =>
          LET head == sor.result[1]
              k    == sor.result[2]
              conv == sor.result[3]
          IN  /\ head = ReshapeT(sor.h, sor.sys.nx, sor.sys.ny)
              /\ sor.it = k
              /\ \A n \in 1..(k - 1) : ~SorBelowTol(n)
              /\ IF conv THEN k >= 1 /\ SorBelowTol(k)
                         ELSE k = sor.sys.max_iter /\ (k >= 1 => ~SorBelowTol(k))

\* C6: solve_iterative terminates after at most max_iter sweeps; it returns
\* (head, k, True) at the first sweep k whose infinity-norm change is below
\* tol, and (head, max_iter, False) when no sweep is; it never raises.
Thm_C6_SorTerminates == []SorReturnContract /\ <>(sor.pc = "done")

Wit_C6_SorTerminates ==
    /\ sor.pc = "done" /\ sor.result[3] = TRUE /\ sor.result[2] = 3
    /\ sor.sys.max_iter = 3 /\ sor.sys.w = Rat[7, 5]

Wit_C6_NotConverged ==
    /\ sor.pc = "done" /\ sor.result[3] = FALSE /\ sor.result[2] = 3

\* C7: a row whose diagonal entry is missing or below 1e-20 in magnitude is
\* skipped in every sweep, so its head stays 0; every other row is updated in
\* every sweep by h_i <- (1-w)*h_i + w*(b_i - sum_{j#i} A_ij*h_j)/A_ii, with
\* the rows before i already updated in the same sweep.
Thm_C7_SkippedRows ==
    LET sys == sor.sys
        N   == sys.nx * sys.ny
        dg(k) == sys.A[k][k]
        skip(k) == ~dg(k).stored \/ dg(k).val = QZero
        mix(n, k) == [c \in 0..(N - 1) |-> IF c < k THEN sor.hs[n][c] ELSE SorBefore(n)[c]]
    IN  /\ sor.pc \in {"loop", "rows", "done"}
        /\ \A k \in 0..(N - 1) : skip(k) => sor.h[k] = QZero
        /\ \A n \in 1..Len(sor.hs) : \A k \in 0..(N - 1) :
              IF skip(k)
              THEN sor.hs[n][k] = QZero
              ELSE sor.hs[n][k] =
                     QAdd[QMul[QSub[QOne, sys.w], SorBefore(n)[k]],
                          QMul[sys.w,
                               QDiv[QSub[sys.b[k], SumNeighbors(sys.A, mix(n, k), k, N)],
                                    dg(k).val]]]

Wit_C7_SkippedRows ==
    /\ sor.pc = "done" /\ Len(sor.hs) = 3 /\ sor.sys.nx * sor.sys.ny = 3
    /\ sor.sys.A[0][0] = Entry(QZero)
    /\ sor.sys.A[1][1] = Entry(QI(2)) /\ sor.sys.A[1][0].stored
    /\ sor.h[0] = QZero /\ sor.h[1] # QZero
    /\ sor.hs[3][1] # sor.hs[2][1] /\ sor.hs[2][1] # sor.hs[1][1]

\* ------------------------------------------------------------------------
\* Steady-state solver: assemble_matrix, solve_direct, solve_iterative and
\* SteadyStateSolver.solve (flattening row = j*nx + i)
\* A head field is [nan, at]: nan marks the all-NaN array that spsolve
\* returns for a singular matrix, at maps (i, j) to the head
\* ------------------------------------------------------------------------
max_outer_iter == 20
tol_outer == Rat[1, 10000]
min_thick == Rat[1, 10]

HeadField(f) == [nan |-> FALSE, at |-> f]
NaNField(nx, ny) == [nan |-> TRUE, at |-> [ij \in Cells(nx, ny) |-> QZero]]

\* expand_location_boundaries for one entry of model.boundaries
ExpandBoundary(bc, nx, ny) ==
    IF bc.type # "CONSTANT_HEAD" \/ bc.location = "CELL" THEN <<bc>>
    ELSE LET at(i, j) == [type |-> "CONSTANT_HEAD", value |-> bc.value,
                          location |-> "CELL", i |-> i, j |-> j]
         IN  CASE bc.location = "LEFT"   -> [n \in 1..ny |-> at(0, n - 1)]
               [] bc.location = "RIGHT"  -> [n \in 1..ny |-> at(nx - 1, n - 1)]
               [] bc.location = "TOP"    -> [n \in 1..nx |-> at(n - 1, ny - 1)]
               [] bc.location = "BOTTOM" -> [n \in 1..nx |-> at(n - 1, 0)]
               [] OTHER -> <<>>

RECURSIVE expand_location_boundaries(_, _, _)
expand_location_boundaries(bs, nx, ny) ==
    IF bs = <<>> THEN <<>>
    ELSE ExpandBoundary(Head(bs), nx, ny) \o expand_location_boundaries(Tail(bs), nx, ny)

\* _constant_head_value: [found, value] of the first matching entry
constant_head_value(boundaries, i, j) ==
    LET Hit == {n \in 1..Len(boundaries) :
                   /\ boundaries[n].type = "CONSTANT_HEAD"
                   /\ boundaries[n].i = i /\ boundaries[n].j = j}
    IN  IF Hit = {} THEN [found |-> FALSE, value |-> 0]
        ELSE [found |-> TRUE, value |-> boundaries[SetMin(Hit)].value]

\* a thickness rule that follows the head for confined models too
saturated_thickness_HeadAlways(m, head_prev, ij) ==
    IF QLt[min_thick, head_prev.at[ij]] THEN head_prev.at[ij] ELSE min_thick

\* lines 103-116: base thickness when confined, else max(head - 0, min_thick)
saturated_thickness(m, head_prev, ij) ==
    IF m.confined THEN QI(m.thickness)
    ELSE IF QLt[min_thick, head_prev.at[ij]] THEN head_prev.at[ij] ELSE min_thick

\* _trans_x / _trans_y between the cell c and its neighbour nb with
\* conductivities K1, K2 and thicknesses t1, t2; a zero product K*t makes
\* 1/(K*t) infinite and the result 0
harmonic_trans(inside, K1, K2, t1, t2) ==
    IF ~inside THEN QZero
    ELSE IF QLe[t1, QZero] \/ QLe[t2, QZero] THEN QZero
    ELSE IF K1 = 0 \/ K2 = 0 THEN QZero
    ELSE QDiv[QI(2), QAdd[QInv[QMul[QI(K1), t1]], QInv[QMul[QI(K2), t2]]]]

\* Well.get_rhs_contribution summed over model.wells, at flat index idx
WellRhs(wells, nx, idx) ==
    SumInt([n \in {k \in 1..Len(wells) : wells[k].j * nx + wells[k].i = idx} |->
               wells[n].rate],
           {k \in 1..Len(wells) : wells[k].j * nx + wells[k].i = idx})

\* assemble_matrix(model, head_prev): [nan, A, b]; nan when the unconfined
\* thickness is taken from a NaN head field
assemble_matrix(m, head_prev) ==
    LET nx == m.nx
        ny == m.ny
        N  == nx * ny
        boundaries == expand_location_boundaries(m.boundaries, nx, ny)
        th(ij) == saturated_thickness(m, head_prev, ij)
        InGrid(ij) == ij[1] >= 0 /\ ij[1] < nx /\ ij[2] >= 0 /\ ij[2] < ny
        tx(ij, nb) == harmonic_trans(InGrid(nb), m.Kx, m.Kx, th(ij),
                                     IF InGrid(nb) THEN th(nb) ELSE QZero)
        ty(ij, nb) == harmonic_trans(InGrid(nb), m.Ky, m.Ky, th(ij),
                                     IF InGrid(nb) THEN th(nb) ELSE QZero)
        coef(row, col) ==
            LET i  == row % nx
                j  == row \div nx
                ij == <<i, j>>
                ch == constant_head_value(boundaries, i, j)
            IN  IF ch.found THEN (IF col = row THEN QOne ELSE QZero)
                ELSE IF col = row
                     THEN QAdd[QAdd[tx(ij, <<i - 1, j>>), tx(ij, <<i + 1, j>>)],
                               QAdd[ty(ij, <<i, j - 1>>), ty(ij, <<i, j + 1>>)]]
                ELSE IF col = row - 1 /\ i > 0 THEN QNeg[tx(ij, <<i - 1, j>>)]
                ELSE IF col = row + 1 /\ i < nx - 1 THEN QNeg[tx(ij, <<i + 1, j>>)]
                ELSE IF col = row - nx /\ j > 0 THEN QNeg[ty(ij, <<i, j - 1>>)]
                ELSE IF col = row + nx /\ j < ny - 1 THEN QNeg[ty(ij, <<i, j + 1>>)]
                ELSE QZero
        rhs(row) ==
            LET ch == constant_head_value(boundaries, row % nx, row \div nx)
            IN  QAdd[IF ch.found THEN QI(ch.value) ELSE QZero,
                     QI(WellRhs(m.wells, nx, row))]
    IN  [nan |-> ~m.confined /\ head_prev.nan,
         A   |-> [row \in 0..(N - 1) |-> [col \in 0..(N - 1) |-> coef(row, col)]],
         b   |-> [row \in 0..(N - 1) |-> rhs(row)]]

\* the CSR form of a dense matrix: zero coefficients are not stored
ToCsr(A, N) ==
    [row \in 0..(N - 1) |-> [col \in 0..(N - 1) |->
        IF A[row][col] = QZero THEN NoEntry ELSE Entry(A[row][col])]]

\* solve_direct: spsolve, then reshape((ny, nx)).T
solve_direct(sys, nx, ny) ==
    LET field(sol) == IF sys.nan \/ ~sol.ok THEN NaNField(nx, ny)
                      ELSE HeadField(ReshapeT(sol.x, nx, ny))
    IN  Strictly(field, linalg_solve(sys.A, sys.b, nx * ny))

\* one sweep of solve_iterative over the rows row..N-1
RECURSIVE SorRows(_, _, _, _, _, _)
SorRows(A, bv, hv, row, N, w) ==
    IF row >= N THEN hv
    ELSE LET next(v) == SorRows(A, bv, v, row + 1, N, w)
         IN  Strictly(next, RowUpdate(A, bv, hv, row, N, w))

\* the sweeps it, it+1, ... of solve_iterative: [h, iters, converged]
RECURSIVE SorLoop(_, _, _, _, _, _, _, _)
SorLoop(A, bv, hv, it, N, w, max_iter, tol) ==
    IF it >= max_iter THEN [h |-> hv, iters |-> max_iter, converged |-> FALSE]
    ELSE LET after(hn) ==
                 IF QLt[Residual(hn, hv, N), tol]
                 THEN [h |-> hn, iters |-> it + 1, converged |-> TRUE]
                 ELSE SorLoop(A, bv, hn, it + 1, N, w, max_iter, tol)
         IN  Strictly(after, SorRows(A, bv, hv, 0, N, w))

\* solve_iterative(A, b, nx, ny, w, max_iter, tol): (head, iters, converged)
solve_iterative(A, bv, nx, ny, w, max_iter, tol) ==
    LET loop(M) == SorLoop(M, bv, [k \in 0..(nx * ny - 1) |-> QZero], 0, nx * ny,
                           w, max_iter, tol)
        out(r) == [head |-> HeadField(ReshapeT(r.h, nx, ny)), iters |-> r.iters,
                   converged |-> r.converged]
    IN  Strictly(out, Strictly(loop, A))

\* _initial_head_guess: 10 everywhere, or the mean of the CONSTANT_HEAD values
initial_head_guess(m) ==
    LET Ch == {n \in 1..Len(m.boundaries) : m.boundaries[n].type = "CONSTANT_HEAD"}
        g  == IF Ch = {} THEN QI(10)
              ELSE Rat[SumInt([n \in Ch |-> m.boundaries[n].value], Ch), Cardinality(Ch)]
    IN  HeadField([ij \in Cells(m.nx, m.ny) |-> g])

\* a difference that keeps the sign: max(head_new - head_prev)
HeadDiff_Signed(head_new, head_prev, nx, ny) ==
    LET C == Cells(nx, ny)
        d(ij) == QSub[head_new.at[ij], head_prev.at[ij]]
        m == CHOOSE ij \in C : \A o \in C : QLe[d(o), d(ij)]
    IN  [nan |-> head_new.nan \/ head_prev.nan, v |-> d(m)]

\* line 100: np.max(np.abs(head_new - head_prev)); NaN if either field is
HeadDiff(head_new, head_prev, nx, ny) ==
    LET C == Cells(nx, ny)
        d(ij) == QAbs[QSub[head_new.at[ij], head_prev.at[ij]]]
        m == CHOOSE ij \in C : \A o \in C : QLe[d(o), d(ij)]
    IN  [nan |-> head_new.nan \/ head_prev.nan, v |-> d(m)]

\* ------------------------------------------------------------------------
\* Steady-state models explored
\* ------------------------------------------------------------------------
MaxSsCells == 3

SsShapes == {g \in (1..MaxSsCells) \X (1..MaxSsCells) : g[1] * g[2] <= MaxSsCells}

ChAt(loc, v) == [type |-> "CONSTANT_HEAD", value |-> v, location |-> loc, i |-> 0, j |-> 0]

SsBoundaryLists ==
    {<<>>,
     <<ChAt("LEFT", 5)>>,
     <<ChAt("LEFT", 5), ChAt("RIGHT", 3)>>,
     <<ChAt("CELL", 0)>>,
     <<[type |-> "NO_FLOW", value |-> 7, location |-> "TOP", i |-> 0, j |-> 0],
       ChAt("BOTTOM", 5), ChAt("NORTH", 5)>>}

SsWellLists(nx, ny) ==
    {<<>>,
     <<[i |-> nx - 1, j |-> ny - 1, rate |-> -1]>>,
     <<[i |-> nx - 1, j |-> ny - 1, rate |-> -50]>>}

\* Where the heads feed back into the coefficients (unconfined models) the
\* exact fractions grow with every outer iteration, so these models are
\* explored on grids of at most two cells; with the iterative method only
\* where the head stays below min_thick after the first iteration. The
\* iterative method is explored on the small systems. An unconfined model
\* solved directly has a constant-head cell (its matrix is non-singular).
SsExplored(m) ==
    /\ m.method = "sor" =>
          /\ m.nx * m.ny <= MaxSorSmallN
          /\ m.confined \/ m.boundaries \in {<<>>, <<ChAt("CELL", 0)>>}
    /\ ~m.confined => m.nx * m.ny <= 2
    /\ (m.method = "direct" /\ ~m.confined) => m.boundaries # <<>>

SsModels ==
    UNION {
      {m \in {[nx |-> g[1], ny |-> g[2], confined |-> cf, thickness |-> 2,
               Kx |-> 1, Ky |-> 1, boundaries |-> bs, wells |-> ws, method |-> me] :
                 cf \in BOOLEAN, bs \in SsBoundaryLists,
                 ws \in SsWellLists(g[1], g[2]), me \in {"direct", "sor"}} :
          SsExplored(m)} : g \in SsShapes}

\* ------------------------------------------------------------------------
\* SteadyStateSolver.solve
\* ------------------------------------------------------------------------
\* lines 48-64: method check, initial guess, locals
SsInit ==
    /\ RunIdle /\ UnitsIdle /\ dbc = Idle /\ thb = Idle /\ sor = Idle
    /\ \E m \in SsModels :
          ss = [pc |-> "loop", model |-> m, outer |-> 0,
                head_prev |-> initial_head_guess(m),
                sys |-> <<>>, head_new |-> <<>>, head_final |-> <<>>,
                iterations |-> -1, converged_inner |-> TRUE, converged |-> FALSE,
                n_assemble |-> 0, n_solve |-> 0, hist |-> <<>>, result |-> <<>>]

\* lines 69-73: next `outer` from range(max_outer_iter), assemble_matrix
SsAssemble ==
    /\ ss.pc = "loop"
    /\ ss.outer < max_outer_iter
    /\ ss' = [ss EXCEPT !.sys = assemble_matrix(ss.model, ss.head_prev),
                        !.n_assemble = ss.n_assemble + 1,
                        !.pc = "solve"]
    /\ UNCHANGED <<runVars, unitVars, dbc, thb, sor>>

\* lines 78-95: the linear solve; the default budget of solve_iterative is
\* represented by MaxIter sweeps
SsSolve ==
    /\ ss.pc = "solve"
    /\ LET m == ss.model
           N == m.nx * m.ny
       IN  IF m.method = "direct"
           THEN ss' = [ss EXCEPT !.head_new = solve_direct(ss.sys, m.nx, m.ny),
                                 !.iterations = -1,
                                 !.converged_inner = TRUE,
                                 !.n_solve = ss.n_solve + 1,
                                 !.pc = "check"]
           ELSE LET r == solve_iterative(ToCsr(ss.sys.A, N), ss.sys.b, m.nx, m.ny,
                                         Rat[7, 5], MaxIter, Rat[1, 1000000])
                IN  ss' = [ss EXCEPT !.head_new = r.head,
                                     !.iterations = r.iters,
                                     !.converged_inner = r.converged,
                                     !.n_solve = ss.n_solve + 1,
                                     !.pc = "check"]
    /\ UNCHANGED <<runVars, unitVars, dbc, thb, sor>>

\* lines 100-107: diff, break when below tol_outer, else head_prev = head_new
SsCheck ==
    /\ ss.pc = "check"
    /\ LET diff == HeadDiff(ss.head_new, ss.head_prev, ss.model.nx, ss.model.ny)
           hist == Append(ss.hist, [prev |-> ss.head_prev, new |-> ss.head_new,
                                    inner |-> ss.converged_inner])
       IN  IF ~diff.nan /\ QLt[diff.v, tol_outer]
           THEN ss' = [ss EXCEPT !.converged = TRUE, !.head_final = ss.head_new,
                                 !.hist = hist, !.pc = "return"]
           ELSE ss' = [ss EXCEPT !.head_prev = ss.head_new, !.outer = ss.outer + 1,
                                 !.hist = hist, !.pc = "loop"]
    /\ UNCHANGED <<runVars, unitVars, dbc, thb, sor>>

\* lines 109-112: the else branch of the for loop
SsExhausted ==
    /\ ss.pc = "loop"
    /\ ss.outer >= max_outer_iter
    /\ ss' = [ss EXCEPT !.converged = FALSE, !.head_final = ss.head_new,
                        !.pc = "return"]
    /\ UNCHANGED <<runVars, unitVars, dbc, thb, sor>>

\* lines 117-127: the result dictionary
SsReturn ==
    /\ ss.pc = "return"
    /\ ss' = [ss EXCEPT !.pc = "done",
                        !.result = [converged |-> ss.converged,
                                    iterations |-> ss.iterations,
                                    method |-> ss.model.method,
                                    head |-> ss.head_final]]
    /\ UNCHANGED <<runVars, unitVars, dbc, thb, sor>>

SsNext == SsAssemble \/ SsSolve \/ SsCheck \/ SsExhausted \/ SsReturn

SpecSteady == SsInit /\ [][SsNext]_vars /\ WF_vars(SsNext)

\* outer iteration n ended with max|h_new - h_prev| < 1e-4
SsBelowTol(n) ==
    /\ ~ss.hist[n].new.nan /\ ~ss.hist[n].prev.nan
    /\ \A ij \in Cells(ss.model.nx, ss.model.ny) :
          QLt[QAbs[QSub[ss.hist[n].new.at[ij], ss.hist[n].prev.at[ij]]], tol_outer]

SsSolveContract ==
    /\ ss.outer <= max_outer_iter
    /\ ss.n_assemble <= max_outer_iter /\ ss.n_solve <= ss.n_assemble
    /\ Len(ss.hist) <= max_outer_iter
    /\ ss.pc \in {"loop", "solve", "check", "return", "done"}
    /\ ss.pc = "done" =>
          LET k == Len(ss.hist)
          IN  /\ k >= 1 /\ ss.n_assemble = k /\ ss.n_solve = k
              /\ ss.result.head = ss.hist[k].new
              /\ \A n \in 1..(k - 1) : ~SsBelowTol(n)
              /\ IF ss.result.converged THEN SsBelowTol(k)
                 ELSE k = max_outer_iter /\ ~SsBelowTol(k)

\* C3: solve terminates after at most 20 outer iterations and returns a
\* result: converged = true with the head of the first iteration whose
\* max|h_new - h_prev| is below 1e-4, otherwise the head of the 20th
\* iteration with converged = false; it does not raise.
Thm_C3_OuterLoop == []SsSolveContract /\ <>(ss.pc = "done")

Wit_C3_OuterLoop ==
    /\ ss.pc = "done" /\ ss.result.converged /\ Len(ss.hist) = 3
    /\ ~ss.model.confined /\ ss.model.method = "direct"

Wit_C3_Exhausted ==
    /\ ss.pc = "done" /\ ~ss.result.converged /\ Len(ss.hist) = max_outer_iter

\* C4 as stated: for a confined model exactly one assemble_matrix call and
\* one linear solve are made before the converged result is returned.
Claim_C4_SingleIteration ==
    (ss.model.confined /\ ss.pc = "done") =>
        /\ ss.n_assemble = 1 /\ ss.n_solve = 1 /\ ss.result.converged

\* C4 (amended): for a confined model every outer iteration assembles the
\* same system and yields the same head. When that head is not NaN the
\* result is converged after one iteration if the head is within 1e-4 of the
\* initial guess and after exactly two iterations (two assemble_matrix calls,
\* two linear solves) otherwise; when the direct solve yields NaN (singular
\* matrix) all 20 iterations are run and converged = false.
Thm_C4_ConfinedIterations ==
    ss.model.confined =>
        /\ \A n \in 2..Len(ss.hist) : ss.hist[n].new = ss.hist[1].new
        /\ ss.pc \in {"check", "return", "done"} =>
              ss.sys = assemble_matrix(ss.model, initial_head_guess(ss.model))
        /\ ss.pc = "done" =>
              IF ss.hist[1].new.nan
              THEN /\ ss.n_assemble = max_outer_iter /\ ss.n_solve = max_outer_iter
                   /\ ~ss.result.converged
              ELSE /\ ss.result.converged
                   /\ ss.n_assemble = ss.n_solve
                   /\ ss.n_assemble = IF SsBelowTol(1) THEN 1 ELSE 2

Wit_C4_ConfinedIterations ==
    /\ ss.model.confined /\ ss.pc = "done" /\ ss.result.converged
    /\ ss.n_assemble = 2 /\ ss.n_solve = 2 /\ ss.model.method = "direct"
    /\ ss.model.nx * ss.model.ny = 3

\* C5: when the SOR solve of the iteration whose head is returned did not
\* converge, the result carries converged = false.
Claim_C5_InnerVisible ==
    (/\ ss.pc = "done" /\ ss.model.method = "sor"
     /\ ~ss.hist[Len(ss.hist)].inner) => ~ss.result.converged

\* ------------------------------------------------------------------------
\* Pumping schedules (pumping_schedule.py). Times are integers, rates are
\* rationals; a constructor yields [ok, obj], ok = FALSE when __post_init__
\* raises ValueError
\* ------------------------------------------------------------------------
\* Python's None where a dict is expected
None == [none |-> TRUE]

\* an exception leaving the call
Raise(err) == [raised |-> TRUE, error |-> err]

\* dict.get(key, default)
Get(cfg, key, default) == IF key \in DOMAIN cfg THEN cfg[key] ELSE default

\* str.lower() on the type names the configs use
lower(s) ==
    CASE s = "River"     -> "river"
      [] s = "DIRICHLET" -> "dirichlet"
      [] s = "Step"      -> "step"
      [] OTHER           -> s

ConstantSchedule(q) == [kind |-> "constant", q |-> q]

\* StepSchedule.__post_init__, lines 46-53
StepSchedule_init(times, rates) ==
    [ok  |-> /\ Len(times) # 0
             /\ Len(times) = Len(rates)
             /\ ~\E i \in 1..(Len(times) - 1) : times[i] > times[i + 1],
     obj |-> [kind |-> "step", times |-> times, rates |-> rates]]

\* RampSchedule.__post_init__, lines 80-82
RampSchedule_init(ts, te, Q_start, Q_end) ==
    [ok  |-> ~(te <= ts),
     obj |-> [kind |-> "ramp", t_start |-> ts, t_end |-> te,
              Q_start |-> Q_start, Q_end |-> Q_end]]

\* SinusoidalSchedule.__post_init__, lines 109-111
SinusoidalSchedule_init(Q_mean, Q_amp, period, phase) ==
    [ok  |-> ~(period <= 0),
     obj |-> [kind |-> "sinusoidal", Q_mean |-> Q_mean, Q_amp |-> Q_amp,
              period |-> period, phase |-> phase]]

\* PulseSchedule.__post_init__, lines 135-143
PulseSchedule_init(Q_on, Q_off, period, t_on, t_off) ==
    [ok  |-> /\ ~(period <= 0)
             /\ (0 <= t_on /\ t_on < period)
             /\ (0 <= t_off /\ t_off <= period)
             /\ ~(t_off <= t_on),
     obj |-> [kind |-> "pulse", Q_on |-> Q_on, Q_off |-> Q_off,
              period |-> period, t_on |-> t_on, t_off |-> t_off]]

\* StepSchedule.__call__, lines 55-66: rates[0] when tm <= times[0], else the
\* rate of the first index, scanning from the end, with tm >= times[i]
StepSchedule_call(s, tm) ==
    IF tm <= s.times[1] THEN QI(s.rates[1])
    ELSE LET Hit == {i \in 1..Len(s.times) : tm >= s.times[i]}
         IN  IF Hit = {} THEN QI(s.rates[1]) ELSE QI(s.rates[SetMax(Hit)])

\* RampSchedule.__call__, lines 84-92
RampSchedule_call(s, tm) ==
    IF tm <= s.t_start THEN QI(s.Q_start)
    ELSE IF tm >= s.t_end THEN QI(s.Q_end)
    ELSE QAdd[QI(s.Q_start),
              QMul[Rat[tm - s.t_start, s.t_end - s.t_start],
                   QI(s.Q_end - s.Q_start)]]

\* sin(2*pi*n/period) at the quarter points of the period (the explored
\* periods divide 4*n for every integer n)
SinQuarter(n, period) ==
    CASE (4 * n) % period = 0 ->
           LET q == ((4 * n) \div period) % 4
           IN  IF q = 1 THEN 1 ELSE IF q = 3 THEN -1 ELSE 0

\* SinusoidalSchedule.__call__, lines 113-115
SinusoidalSchedule_call(s, tm) ==
    QI(s.Q_mean + s.Q_amp * SinQuarter(tm - s.phase, s.period))

\* PulseSchedule.__call__, lines 145-150 (t % period is in [0, period))
PulseSchedule_call(s, tm) ==
    LET t_mod == tm % s.period
    IN  IF s.t_on <= t_mod /\ t_mod < s.t_off THEN QI(s.Q_on) ELSE QI(s.Q_off)

\* schedule(tm)
Schedule_call(s, tm) ==
    CASE s.kind = "constant"   -> QI(s.q)
      [] s.kind = "step"       -> StepSchedule_call(s, tm)
      [] s.kind = "ramp"       -> RampSchedule_call(s, tm)
      [] s.kind = "sinusoidal" -> SinusoidalSchedule_call(s, tm)
      [] s.kind = "pulse"      -> PulseSchedule_call(s, tm)

\* the try/except of make_schedule (lines 188-226): a missing key (KeyError)
\* or a constructor's ValueError yields ConstantSchedule(default_q)
ExceptFallback(Keys, cfg, built, default_q) ==
    IF Keys \subseteq DOMAIN cfg /\ built.ok THEN built.obj
    ELSE ConstantSchedule(default_q)

\* make_schedule(config, default_q), lines 153-229: [raised, schedule]
make_schedule(config, default_q) ==
    IF config = None THEN [raised |-> FALSE, schedule |-> ConstantSchedule(default_q)]
    ELSE
      LET ty == lower(Get(config, "type", "constant"))
          try(Keys, built) ==
              [raised   |-> FALSE,
               schedule |-> ExceptFallback(Keys, config, built, default_q)]
      IN  CASE ty = "constant" ->
                 [raised |-> FALSE,
                  schedule |-> ConstantSchedule(Get(config, "Q", default_q))]
            [] ty = "step" ->
                 try({}, StepSchedule_init(Get(config, "times", <<>>),
                                           Get(config, "rates", <<>>)))
            [] ty = "ramp" ->
                 try({"t_start", "t_end"},
                     RampSchedule_init(Get(config, "t_start", 0), Get(config, "t_end", 0),
                                       Get(config, "Q_start", default_q),
                                       Get(config, "Q_end", default_q)))
            [] ty = "sinusoidal" ->
                 try({"Q_amp", "period"},
                     SinusoidalSchedule_init(Get(config, "Q_mean", default_q),
                                             Get(config, "Q_amp", 0),
                                             Get(config, "period", 0),
                                             Get(config, "phase", 0)))
            [] ty = "pulse" ->
                 try({"period", "t_on", "t_off"},
                     PulseSchedule_init(Get(config, "Q_on", default_q),
                                        Get(config, "Q_off", 0),
                                        Get(config, "period", 0),
                                        Get(config, "t_on", 0),
                                        Get(config, "t_off", 0)))
            [] OTHER -> [raised |-> FALSE, schedule |-> ConstantSchedule(default_q)]

\* ------------------------------------------------------------------------
\* SourceSink (source_sink.py). The model handed to it has a grid with
\* num_cells and cell_index(row, col) (row-major), a list of well dicts and,
\* for the recharge of the model, the attributes recharge, dx, dy
\* ------------------------------------------------------------------------
\* grid.cell_index(row, col)
grid_cell_index(grid, row, col) == row * grid.ncol + col

\* lines 50-107 for one well dict w: <<>> when the well is skipped, else the
\* pair (cell_idx, schedule)
WellScheduleEntry(grid, w) ==
    LET hasRow == "row" \in DOMAIN w \/ "i" \in DOMAIN w
        hasCol == "col" \in DOMAIN w \/ "j" \in DOMAIN w
        row    == IF "row" \in DOMAIN w THEN w.row ELSE w.i
        col    == IF "col" \in DOMAIN w THEN w.col ELSE w.j
        base_q == Get(w, "Q", Get(w, "q", 0))
        made   == make_schedule(Get(w, "schedule", None), base_q)
    IN  IF ~(hasRow /\ hasCol) THEN <<>>
        ELSE <<[idx |-> grid_cell_index(grid, row, col),
                schedule |-> made.schedule, raised |-> made.raised]>>

\* SourceSink._build_well_schedules, lines 43-107
RECURSIVE build_well_schedules(_, _)
build_well_schedules(grid, wells) ==
    IF wells = <<>> THEN <<>>
    ELSE WellScheduleEntry(grid, Head(wells)) \o build_well_schedules(grid, Tail(wells))

\* a vector that stores the last schedule value of a cell instead of adding
RECURSIVE vector_at_time_Overwrite(_, _, _)
vector_at_time_Overwrite(ws, n, tm) ==
    IF ws = <<>> THEN [k \in 0..(n - 1) |-> QZero]
    ELSE LET e   == ws[Len(ws)]
             rhs == vector_at_time_Overwrite(SubSeq(ws, 1, Len(ws) - 1), n, tm)
         IN  [rhs EXCEPT ![e.idx] = Schedule_call(e.schedule, tm)]

\* SourceSink.vector_at_time, lines 112-127: rhs = zeros(n), then
\* rhs[idx] += schedule(t) for the pairs in order
RECURSIVE vector_at_time(_, _, _)
vector_at_time(ws, n, tm) ==
    IF ws = <<>> THEN [k \in 0..(n - 1) |-> QZero]
    ELSE LET e   == ws[Len(ws)]
             rhs == vector_at_time(SubSeq(ws, 1, Len(ws) - 1), n, tm)
         IN  [rhs EXCEPT ![e.idx] = QAdd[rhs[e.idx], Schedule_call(e.schedule, tm)]]

\* ------------------------------------------------------------------------
\* SourceSink objects explored
\* ------------------------------------------------------------------------
MaxSrcCalls == 2

SrcTimes == {-1, 0, 1, 2, 3}

StepConfigs ==
    {[type |-> "Step", times |-> <<0, 2>>, rates |-> <<-1, -2>>],
     [type |-> "step", times |-> <<0, 0>>, rates |-> <<1, 2>>],
     [type |-> "step", times |-> <<1, 1, 2>>, rates |-> <<1, 2, 3>>],
     [type |-> "step", times |-> <<2, 0>>, rates |-> <<1, 2>>],
     [type |-> "step", times |-> <<0>>, rates |-> <<1, 2>>],
     [type |-> "step"]}

ScheduleConfigs ==
    {None,
     [type |-> "constant", Q |-> -3],
     [type |-> "constant"],
     [type |-> "ramp", t_start |-> 0, t_end |-> 2, Q_start |-> 0, Q_end |-> -3],
     [type |-> "ramp", t_start |-> 1, t_end |-> 1, Q_start |-> 0, Q_end |-> -3],
     [type |-> "ramp", t_start |-> 0, Q_end |-> -3],
     [type |-> "sinusoidal", Q_mean |-> -4, Q_amp |-> 2, period |-> 4, phase |-> 1],
     [type |-> "sinusoidal", Q_amp |-> 2, period |-> 0],
     [type |-> "sinusoidal", Q_amp |-> 2],
     [type |-> "pulse", Q_on |-> -5, Q_off |-> 0, period |-> 3, t_on |-> 1, t_off |-> 2],
     [type |-> "pulse", Q_on |-> -5, period |-> 0, t_on |-> 0, t_off |-> 1],
     [type |-> "pulse", Q_on |-> -5, period |-> -2, t_on |-> 0, t_off |-> 1],
     [type |-> "exponential", Q |-> -3]}
    \cup StepConfigs

\* a well dict at (row, col) with base rate -2 and schedule config c
WellDict(row, col, c) ==
    IF c = None THEN [row |-> row, col |-> col, Q |-> -2]
    ELSE [row |-> row, col |-> col, Q |-> -2, schedule |-> c]

\* one well with any config at cell (0, 0), optionally followed by a second
\* well (keys i, j, q) in the same or another cell, or by a well without
\* indices
SrcWellLists ==
    UNION {
      {<<WellDict(0, 0, c)>>,
       <<[cell |-> <<0, 0>>, Q |-> -2]>>,
       <<WellDict(0, 0, c), [i |-> 0, j |-> 0, q |-> 1]>>,
       <<WellDict(0, 0, c), [i |-> 1, j |-> 1, q |-> 1,
                             schedule |-> [type |-> "step", times |-> <<0, 2>>,
                                           rates |-> <<-1, -2>>]]>>,
       <<[name |-> "unplaced", Q |-> 4], WellDict(0, 0, c)>>} : c \in ScheduleConfigs}
    \cup {<<>>}

\* objects: the wells are objects carrying the keys as attributes (TRUE) or
\* dicts (FALSE); SourceSink reads both alike (hasattr / dict.get)
SrcModels ==
    {[grid |-> [num_cells |-> 4, nrow |-> 2, ncol |-> 2], wells |-> ws,
      objects |-> ob, recharge |-> r, dx |-> 1, dy |-> 2] :
        ws \in SrcWellLists, ob \in BOOLEAN,
        r \in {[set |-> FALSE, R |-> 0], [set |-> TRUE, R |-> 1]}}

\* ------------------------------------------------------------------------
\* SourceSink: construction, then vector_at_time calls in any order of times
\* ------------------------------------------------------------------------
SrcInit ==
    /\ RunIdle /\ dbc = Idle /\ thb = Idle /\ sor = Idle /\ ss = Idle
    /\ bcf = Idle /\ asm = Idle /\ grd = Idle /\ MoreIdle
    /\ \E m \in SrcModels :
          srcsink = [pc |-> "new", model |-> m, n |-> 0, well_schedules |-> <<>>,
                     built |-> <<>>, calls |-> <<>>, budget |-> None]

\* SourceSink.__init__, lines 29-37
SrcConstruct ==
    /\ srcsink.pc = "new"
    /\ LET ws == build_well_schedules(srcsink.model.grid, srcsink.model.wells)
       IN  srcsink' = [srcsink EXCEPT
                         !.n = srcsink.model.grid.num_cells,
                         !.well_schedules = ws,
                         !.built = ws,
                         !.pc = IF \E e \in 1..Len(ws) : ws[e].raised
                                THEN "raised" ELSE "ready"]
    /\ UNCHANGED <<runVars, dbc, thb, sor, ss, bcf, asm, grd, moreVars>>

\* SourceSink.vector_at_time(t); q lists schedule(t) of every pair
SrcVectorAtTime ==
    /\ srcsink.pc = "ready"
    /\ Len(srcsink.calls) < MaxSrcCalls
    /\ \E tm \in SrcTimes :
          srcsink' = [srcsink EXCEPT !.calls = Append(@,
                        [t   |-> tm,
                         q   |-> [e \in 1..Len(srcsink.well_schedules) |->
                                     Schedule_call(srcsink.well_schedules[e].schedule, tm)],
                         rhs |-> vector_at_time(srcsink.well_schedules, srcsink.n, tm)])]
    /\ UNCHANGED <<runVars, dbc, thb, sor, ss, bcf, asm, grd, moreVars>>

\* BudgetEngine(model).compute_wells(): w.Q is an attribute access, an
\* AttributeError on a dict and on an object without Q
SrcBudget ==
    /\ srcsink.pc = "ready"
    /\ srcsink.budget = None
    /\ LET m == srcsink.model
           readable == m.objects /\ \A w \in 1..Len(m.wells) : "Q" \in DOMAIN m.wells[w]
       IN  srcsink' = [srcsink EXCEPT !.budget =
                         IF m.wells = <<>> \/ readable
                         THEN [raised |-> FALSE, wells |-> compute_wells(m)]
                         ELSE Raise("AttributeError")]
    /\ UNCHANGED <<runVars, dbc, thb, sor, ss, bcf, asm, grd, moreVars>>

SrcNext == SrcConstruct \/ SrcVectorAtTime \/ SrcBudget

SpecSource == SrcInit /\ [][SrcNext]_vars

\* ------------------------------------------------------------------------
\* Properties of the schedules and of SourceSink (checked under SpecSource)
\* ------------------------------------------------------------------------
\* C11: for every accepted StepSchedule and every time t the returned rate is
\* the rate of the latest breakpoint (highest index k) with times[k] <= t,
\* and rates[0] when t lies before the first breakpoint.
Claim_C11_LatestBreakpoint ==
    \A c \in 1..Len(srcsink.calls) :
      \A e \in 1..Len(srcsink.well_schedules) :
        LET sch == srcsink.well_schedules[e].schedule
            K   == {k \in 1..Len(sch.times) : sch.times[k] <= srcsink.calls[c].t}
        IN  sch.kind = "step" =>
              srcsink.calls[c].q[e] =
                  QI(IF K = {} THEN sch.rates[1] ELSE sch.rates[SetMax(K)])

\* the schedule configs the error-handling section calls degenerate
DegenerateConfig(cfg) ==
    /\ cfg # None
    /\ "type" \in DOMAIN cfg
    /\ \/ /\ lower(cfg.type) \in {"sinusoidal", "pulse"}
          /\ "period" \in DOMAIN cfg /\ cfg.period <= 0
       \/ /\ lower(cfg.type) = "step"
          /\ LET times == Get(cfg, "times", <<>>)
             IN  \/ times = <<>>
                 \/ \E i \in 1..(Len(times) - 1) : times[i] >= times[i + 1]
       \/ /\ lower(cfg.type) = "ramp"
          /\ {"t_start", "t_end"} \subseteq DOMAIN cfg /\ cfg.t_end <= cfg.t_start

\* C12: a well whose schedule config is degenerate makes the construction of
\* SourceSink raise; the config is never replaced by another schedule.
Claim_C12_DegenerateRaises ==
    srcsink.pc = "ready" =>
        \A w \in 1..Len(srcsink.model.wells) :
            ~DegenerateConfig(Get(srcsink.model.wells[w], "schedule", None))

\* the wells of the model that carry cell indices, in order
RECURSIVE PlacedWells(_)
PlacedWells(wells) ==
    IF wells = <<>> THEN <<>>
    ELSE (IF {"row", "col"} \subseteq DOMAIN Head(wells)
             \/ {"i", "j"} \subseteq DOMAIN Head(wells)
          THEN <<Head(wells)>> ELSE <<>>) \o PlacedWells(Tail(wells))

\* C13: vector_at_time(t) has length N; its entry at a cell is the sum of
\* schedule(t) over the wells resolved to that cell and 0 where there is
\* none; the cell indices are those fixed at construction (row-major index
\* of each placed well) whatever the number and order of the calls.
Thm_C13_VectorSumsWells ==
    srcsink.pc = "ready" =>
        LET ws     == srcsink.well_schedules
            placed == PlacedWells(srcsink.model.wells)
        IN  /\ ws = srcsink.built
            /\ Len(ws) = Len(placed)
            /\ \A e \in 1..Len(ws) :
                  ws[e].idx = Get(placed[e], "row", Get(placed[e], "i", 0))
                                  * srcsink.model.grid.ncol
                              + Get(placed[e], "col", Get(placed[e], "j", 0))
            /\ \A c \in 1..Len(srcsink.calls) :
                  LET call == srcsink.calls[c]
                  IN  /\ DOMAIN call.rhs = 0..(srcsink.model.grid.num_cells - 1)
                      /\ \A k \in DOMAIN call.rhs :
                            LET At == {e \in 1..Len(ws) : ws[e].idx = k}
                            IN  call.rhs[k] = QSum([e \in At |-> call.q[e]], At)

\* two wells in cell 0, two calls, the second at an earlier time
Wit_C13_VectorSumsWells ==
    /\ srcsink.pc = "ready" /\ Len(srcsink.calls) = 2
    /\ srcsink.calls[2].t < srcsink.calls[1].t
    /\ Len(srcsink.well_schedules) = 2
    /\ srcsink.well_schedules[1].idx = 0 /\ srcsink.well_schedules[2].idx = 0
    /\ srcsink.well_schedules[1].schedule.kind = "ramp"
    /\ srcsink.calls[1].rhs[0] # srcsink.calls[2].rhs[0]
    /\ srcsink.calls[1].rhs[0] = QAdd[srcsink.calls[1].q[1], QI(1)]

\* C14: the source/sink vector holds at every cell the recharge flux of the
\* model at time t times the cell area dx*dy, added to the well contributions
\* of the cell.
Claim_C14_RechargeInVector ==
    \A c \in 1..Len(srcsink.calls) :
        LET call == srcsink.calls[c]
            ws   == srcsink.well_schedules
            m    == srcsink.model
        IN  \A k \in DOMAIN call.rhs :
              LET At == {e \in 1..Len(ws) : ws[e].idx = k}
              IN  call.rhs[k] =
                    QAdd[QSum([e \in At |-> call.q[e]], At),
                         IF m.recharge.set THEN QI(m.recharge.R * m.dx * m.dy)
                         ELSE QZero]

\* ------------------------------------------------------------------------
\* BCFactory.create (bc_factory.py) and the constructors it calls
\* ------------------------------------------------------------------------
\* parameter names of each boundary-condition constructor (self left out)
CtorParams(variant) ==
    CASE variant = "DirichletBC"      -> {"cells", "head_value"}
      [] variant = "NeumannBC"        -> {"cells", "flux"}
      [] variant = "GeneralHeadBC"    -> {"cells", "conductance", "boundary_head"}
      [] variant = "RiverBC"          -> {"cells", "conductance", "river_stage"}
      [] variant = "RechargeBC"       -> {"recharge_array"}
      [] variant = "TheisDirichletBC" -> {"cells", "cell_coords", "wells", "T",
                                          "S", "dx", "dy", "head0"}
      [] variant = "FluxBC"           -> {"cells", "flux", "model"}

\* a constructor call by keyword: an unexpected or a missing keyword is a TypeError
Construct(variant, kwargs) ==
    IF DOMAIN kwargs = CtorParams(variant)
    THEN [raised |-> FALSE, variant |-> variant, obj |-> kwargs]
    ELSE Raise("TypeError")

\* bc_conf[k] for every k of Keys comes before the call: a missing one is a KeyError
Subscripts(conf, Keys, built) ==
    IF Keys \subseteq DOMAIN conf THEN built ELSE Raise("KeyError")

BCFactory_create(bc_conf, has_model) ==
    IF "type" \notin DOMAIN bc_conf THEN Raise("ValueError")
    ELSE
    LET bc_type == lower(bc_conf.type) IN
    CASE bc_type = "dirichlet" ->
           Subscripts(bc_conf, {"cells", "value"},
               Construct("DirichletBC",
                   [cells |-> bc_conf.cells, head_value |-> bc_conf.value]))
      [] bc_type = "neumann" ->
           Subscripts(bc_conf, {"cells", "value"},
               Construct("NeumannBC",
                   [cells |-> bc_conf.cells, flux_value |-> bc_conf.value]))
      [] bc_type = "ghb" ->
           LET C     == Get(bc_conf, "conductance", Get(bc_conf, "C", None))
               stage == Get(bc_conf, "stage", None)
               C_is_None     == {"conductance", "C"} \cap DOMAIN bc_conf = {}
               stage_is_None == "stage" \notin DOMAIN bc_conf
           IN  IF C_is_None \/ stage_is_None THEN Raise("ValueError")
               ELSE Subscripts(bc_conf, {"cells"},
                        Construct("GeneralHeadBC",
                            [cells |-> bc_conf.cells, conductance |-> C,
                             boundary_head |-> stage]))
      [] bc_type = "river" ->
           Subscripts(bc_conf, {"cells", "stage", "conductance"},
               Construct("RiverBC",
                   [cells |-> bc_conf.cells, stage |-> bc_conf.stage,
                    conductance |-> bc_conf.conductance]))
      [] bc_type = "recharge" ->
           Subscripts(bc_conf, {"cells", "rate"},
               Construct("RechargeBC",
                   [cells |-> bc_conf.cells, rate |-> bc_conf.rate]))
      [] bc_type = "theis" ->
           Subscripts(bc_conf, {"cells", "cell_coords", "wells", "T", "S",
                                "dx", "dy", "head0"},
               Construct("TheisDirichletBC",
                   [cells |-> bc_conf.cells, cell_coords |-> bc_conf.cell_coords,
                    wells |-> bc_conf.wells, T |-> bc_conf.T, S |-> bc_conf.S,
                    dx |-> bc_conf.dx, dy |-> bc_conf.dy,
                    head0 |-> bc_conf.head0]))
      [] bc_type = "flux" ->
           IF ~has_model THEN Raise("ValueError")
           ELSE Subscripts(bc_conf, {"cells", "flux"},
                    Construct("FluxBC",
                        [cells |-> bc_conf.cells, flux |-> bc_conf.flux,
                         model |-> "model"]))
      [] OTHER -> Raise("ValueError")

\* --- the configs handed to the factory -----------------------------------
BcCellLists == {<<0>>, <<0, 3>>}
BcValues    == {2, 5}

BcConfigs ==
    UNION {
      { [type |-> "dirichlet", cells |-> c, value |-> v],
        [type |-> "DIRICHLET", cells |-> c, value |-> v],
        [type |-> "dirichlet", cells |-> c],
        [type |-> "neumann", cells |-> c, value |-> v],
        [type |-> "flux", cells |-> c, flux |-> v],
        [type |-> "flux", cells |-> c],
        [type |-> "ghb", cells |-> c, stage |-> v, conductance |-> 1],
        [type |-> "ghb", cells |-> c, stage |-> v, C |-> 1],
        [type |-> "ghb", cells |-> c, conductance |-> 1],
        [type |-> "ghb", stage |-> v, conductance |-> 1],
        [type |-> "river", cells |-> c, stage |-> v, conductance |-> 1],
        [type |-> "River", cells |-> c, stage |-> v, conductance |-> 1],
        [type |-> "river", cells |-> c, conductance |-> 1],
        [type |-> "recharge", cells |-> c, rate |-> v],
        [type |-> "recharge", cells |-> c],
        [type |-> "theis", cells |-> c, cell_coords |-> <<<<0, 0>>>>,
         wells |-> <<<<1, 1, v>>>>, T |-> 1, S |-> 1, dx |-> 1, dy |-> 1,
         head0 |-> 10],
        [type |-> "theis", cells |-> c, wells |-> <<<<1, 1, v>>>>,
         T |-> 1, S |-> 1, dx |-> 1, dy |-> 1, head0 |-> 10],
        [type |-> "wall", cells |-> c, value |-> v],
        [cells |-> c, value |-> v] }
      : c \in BcCellLists, v \in BcValues }

BcfInit ==
    /\ RunIdle /\ dbc = Idle /\ thb = Idle /\ sor = Idle /\ ss = Idle
    /\ srcsink = Idle /\ asm = Idle /\ grd = Idle /\ MoreIdle
    /\ \E conf \in BcConfigs, has_model \in BOOLEAN :
          bcf = [pc |-> "new", conf |-> conf, has_model |-> has_model,
                 result |-> None]

\* bc = BCFactory.create(conf, model)
BcfCreate ==
    /\ bcf.pc = "new"
    /\ bcf' = [bcf EXCEPT !.pc = "done",
                          !.result = BCFactory_create(bcf.conf, bcf.has_model)]
    /\ UNCHANGED <<runVars, dbc, thb, sor, ss, srcsink, asm, grd, moreVars>>

BcfNext == BcfCreate

SpecFactory == BcfInit /\ [][BcfNext]_vars

\* the documented types, the keys documented for each and the variant of each
DocumentedKeys(ty) ==
    CASE ty = "dirichlet" -> {"cells", "value"}
      [] ty = "neumann"   -> {"cells", "value"}
      [] ty = "flux"      -> {"cells", "flux"}
      [] ty = "ghb"       -> {"cells", "stage", "conductance"}
      [] ty = "river"     -> {"cells", "stage", "conductance"}
      [] ty = "recharge"  -> {"cells", "rate"}
      [] ty = "theis"     -> {"cells", "cell_coords", "wells", "T", "S",
                              "dx", "dy", "head0"}

DocumentedVariant(ty) ==
    CASE ty = "dirichlet" -> "DirichletBC"
      [] ty = "neumann"   -> "NeumannBC"
      [] ty = "flux"      -> "FluxBC"
      [] ty = "ghb"       -> "GeneralHeadBC"
      [] ty = "river"     -> "RiverBC"
      [] ty = "recharge"  -> "RechargeBC"
      [] ty = "theis"     -> "TheisDirichletBC"

DocumentedTypes ==
    {"dirichlet", "neumann", "flux", "ghb", "river", "recharge", "theis"}

\* C15: a config of a documented type that carries the documented keys gets
\* an object of the corresponding variant; create raises only for a missing
\* or unknown type or a missing required key (stated for the calls that
\* pass the model).
Claim_C15_FactoryVariants ==
    bcf.pc = "done" /\ bcf.has_model =>
        LET conf == bcf.conf
            documented == /\ "type" \in DOMAIN conf
                          /\ lower(conf.type) \in DocumentedTypes
                          /\ DocumentedKeys(lower(conf.type)) \subseteq DOMAIN conf
        IN  IF documented
            THEN /\ ~bcf.result.raised
                 /\ bcf.result.variant = DocumentedVariant(lower(conf.type))
            ELSE bcf.result.raised

\* ------------------------------------------------------------------------
\* The two matrix assemblers on one grid
\* ------------------------------------------------------------------------
MaxAsmCells == 4

AsmShapes ==
    {g \in (1..MaxAsmCells) \X (1..MaxAsmCells) : g[1] * g[2] <= MaxAsmCells}

AsmCells(nx, ny) == (0..(nx - 1)) \X (0..(ny - 1))

\* transmissivities of the transient model's cells
AsmTValues == {1, 3}
\* uniform cell spacings
AsmSpacings == {1, 2}

\* the steady-state model on the same grid: confined, thickness 2, K = 1
AsmSteadyModel(cfg) ==
    [nx |-> cfg.nx, ny |-> cfg.ny, confined |-> TRUE, thickness |-> 2,
     Kx |-> 1, Ky |-> 1, boundaries |-> <<>>, wells |-> <<>>,
     method |-> "direct"]

AsmInit ==
    /\ RunIdle /\ dbc = Idle /\ thb = Idle /\ sor = Idle /\ ss = Idle
    /\ srcsink = Idle /\ bcf = Idle /\ grd = Idle /\ MoreIdle
    /\ \E g \in AsmShapes, dx \in AsmSpacings, dy \in AsmSpacings :
       \E T \in [AsmCells(g[1], g[2]) -> AsmTValues],
          active \in [AsmCells(g[1], g[2]) -> BOOLEAN] :
          asm = [pc |-> "ready",
                 cfg |-> [nx |-> g[1], ny |-> g[2], dx |-> dx, dy |-> dy,
                          T |-> T, active |-> active],
                 transient |-> None, steady |-> None]

\* A = MatrixAssembly.build_conductance_matrix(nx, ny, dx, dy, T, active)
AsmTransient ==
    /\ asm.pc = "ready" /\ asm.transient = None
    /\ LET c == asm.cfg
       IN  asm' = [asm EXCEPT !.transient =
                      [A |-> build_conductance_matrix(c.nx, c.ny, c.dx, c.dy,
                                                      c.T, c.active)]]
    /\ UNCHANGED <<runVars, dbc, thb, sor, ss, srcsink, bcf, grd, moreVars>>

\* A, b, shape = assemble_matrix(model, head_prev)
AsmSteady ==
    /\ asm.pc = "ready" /\ asm.steady = None
    /\ LET m == AsmSteadyModel(asm.cfg)
       IN  asm' = [asm EXCEPT !.steady =
                      assemble_matrix(m, initial_head_guess(m))]
    /\ UNCHANGED <<runVars, dbc, thb, sor, ss, srcsink, bcf, grd, moreVars>>

AsmNext == AsmTransient \/ AsmSteady

SpecAssembly == AsmInit /\ [][AsmNext]_vars

\* the in-grid neighbours of cell ij and the squared spacing towards each
AsmNeighbours(cfg, ij) ==
    {nb \in AsmCells(cfg.nx, cfg.ny) :
        \/ nb[2] = ij[2] /\ (nb[1] = ij[1] - 1 \/ nb[1] = ij[1] + 1)
        \/ nb[1] = ij[1] /\ (nb[2] = ij[2] - 1 \/ nb[2] = ij[2] + 1)}

AsmSpacingSq(cfg, ij, nb) ==
    IF nb[2] = ij[2] THEN cfg.dx * cfg.dx ELSE cfg.dy * cfg.dy

\* 2*T1*T2/(T1+T2) divided by d2, as one fraction
HarmonicOverSq(T1, T2, d2) == Rat[2 * T1 * T2, (T1 + T2) * d2]

\* C16: in the matrix of build_conductance_matrix the diagonal of an active
\* cell is the sum of its conductances to active in-grid neighbours, each
\* such off-diagonal entry is the negative of that conductance, every row
\* sums to zero, the matrix is symmetric, and an inactive cell has an all-zero
\* row and an all-zero column.
Thm_C16_ConductanceMatrix ==
    asm.pc = "ready" /\ asm.transient # None =>
        LET cfg == asm.cfg
            A   == asm.transient.A
            N   == cfg.nx * cfg.ny
            idx(ij) == ij[1] * cfg.ny + ij[2]
            Act(ij) == {nb \in AsmNeighbours(cfg, ij) : cfg.active[nb]}
            Cn(ij, nb) == HarmonicOverSq(cfg.T[ij], cfg.T[nb],
                                         AsmSpacingSq(cfg, ij, nb))
        IN  /\ DOMAIN A = 0..(N - 1)
            /\ \A ij \in AsmCells(cfg.nx, cfg.ny) :
                  /\ DOMAIN A[idx(ij)] = 0..(N - 1)
                  /\ QSum(A[idx(ij)], 0..(N - 1)) = QZero
                  /\ \A c \in 0..(N - 1) : A[idx(ij)][c] = A[c][idx(ij)]
                  /\ IF cfg.active[ij]
                     THEN /\ A[idx(ij)][idx(ij)] =
                                QSum([nb \in Act(ij) |-> Cn(ij, nb)], Act(ij))
                          /\ \A nb \in Act(ij) :
                                A[idx(ij)][idx(nb)] = QNeg[Cn(ij, nb)]
                     ELSE \A c \in 0..(N - 1) :
                             A[idx(ij)][c] = QZero /\ A[c][idx(ij)] = QZero

\* a 2x2 grid with one inactive cell, unequal spacings and unequal
\* transmissivities has been assembled
Wit_C16_ConductanceMatrix ==
    /\ asm.pc = "ready" /\ asm.transient # None
    /\ asm.cfg.nx = 2 /\ asm.cfg.ny = 2 /\ asm.cfg.dx = 1 /\ asm.cfg.dy = 2
    /\ ~asm.cfg.active[<<1, 1>>]
    /\ \A ij \in {<<0, 0>>, <<0, 1>>, <<1, 0>>} : asm.cfg.active[ij]
    /\ asm.cfg.T[<<0, 0>>] = 1 /\ asm.cfg.T[<<0, 1>>] = 3 /\ asm.cfg.T[<<1, 0>>] = 1
    /\ asm.transient.A[0][0] = QAdd[QOne, Rat[3, 8]]
    /\ asm.transient.A[3][3] = QZero

\* C17: in both assemblers the coefficient that couples two adjacent in-grid
\* cells (both active, for the transient assembler) is minus the harmonic mean
\* 2*T1*T2/(T1+T2) of their transmissivities divided by the square of the
\* cell spacing along the connecting axis.
Claim_C17_HarmonicOverSpacing ==
    asm.pc = "ready" =>
        LET cfg == asm.cfg
            m   == AsmSteadyModel(cfg)
        IN  \A ij \in AsmCells(cfg.nx, cfg.ny) : \A nb \in AsmNeighbours(cfg, ij) :
              /\ (asm.transient # None /\ cfg.active[ij] /\ cfg.active[nb]) =>
                    asm.transient.A[ij[1] * cfg.ny + ij[2]][nb[1] * cfg.ny + nb[2]]
                       = QNeg[HarmonicOverSq(cfg.T[ij], cfg.T[nb],
                                             AsmSpacingSq(cfg, ij, nb))]
              /\ asm.steady # None =>
                    asm.steady.A[ij[2] * cfg.nx + ij[1]][nb[2] * cfg.nx + nb[1]]
                       = QNeg[HarmonicOverSq(
                                 (IF nb[2] = ij[2] THEN m.Kx ELSE m.Ky) * m.thickness,
                                 (IF nb[2] = ij[2] THEN m.Kx ELSE m.Ky) * m.thickness,
                                 AsmSpacingSq(cfg, ij, nb))]

\* ------------------------------------------------------------------------
\* Constant-head rows of the steady-state system (checked under SpecSteady)
\* ------------------------------------------------------------------------
\* C18: in the system built by assemble_matrix the row of every constant-head
\* cell is an identity row whose RHS is the head prescribed for the cell by a
\* boundary entry, also when a well is located in the cell or when several
\* entries name it.
Claim_C18_ConstantHeadRows ==
    ss.pc = "solve" =>
        LET m  == ss.model
            N  == m.nx * m.ny
            bs == expand_location_boundaries(m.boundaries, m.nx, m.ny)
        IN  \A row \in 0..(N - 1) :
              LET Named == {n \in 1..Len(bs) :
                               /\ bs[n].type = "CONSTANT_HEAD"
                               /\ bs[n].i = row % m.nx /\ bs[n].j = row \div m.nx}
              IN  Named # {} =>
                    /\ \A col \in 0..(N - 1) :
                          ss.sys.A[row][col] = IF col = row THEN QOne ELSE QZero
                    /\ \E n \in Named : ss.sys.b[row] = QI(bs[n].value)

\* ------------------------------------------------------------------------
\* Order of the writes and reads of a transient step (checked under SpecRun)
\* ------------------------------------------------------------------------
\* the system build_system yields from the attribute model.storage
SystemFrom(m, stor, hcur, tm) ==
    build_system(stor, hcur, m.dt,
                 build_conductance_matrix(m.nx, m.ny, m.dx, m.dy,
                                          transmissivity(m), m.active),
                 build_W_vector(m, tm), NCells(m))

MaxGridN == 2

\* np.concatenate(([0], np.cumsum(d))): faces[k + 1] is the face of index k
RECURSIVE Faces(_)
Faces(dv) ==
    IF dv = <<>> THEN <<0>>
    ELSE LET f == Faces(SubSeq(dv, 1, Len(dv) - 1))
         IN  Append(f, f[Len(f)] + dv[Len(dv)])

\* Grid.__post_init__
Grid_init(dxs, dys) ==
    [dx |-> dxs, dy |-> dys, nx |-> Len(dxs), ny |-> Len(dys),
     x_faces |-> Faces(dxs), y_faces |-> Faces(dys)]

\* np.searchsorted(a, v) with the default side='left' on a sorted array: the
\* first position whose element is not less than v
searchsorted(a, v) == Cardinality({k \in 1..Len(a) : a[k] < v})

\* Grid.get_cell_index(x, y)
get_cell_index(grid, x, y) ==
    LET i == searchsorted(grid.x_faces, x) - 1
        j == searchsorted(grid.y_faces, y) - 1
    IN  IF i < 0 \/ i >= grid.nx \/ j < 0 \/ j >= grid.ny
        THEN Raise("ValueError")
        ELSE [raised |-> FALSE, cell |-> <<i, j>>]

GridWidths == {1, 2}

GridWidthLists == UNION {[1..n -> GridWidths] : n \in 1..MaxGridN}

Extent(dv) == Faces(dv)[Len(dv) + 1]

GrdInit ==
    /\ RunIdle /\ dbc = Idle /\ thb = Idle /\ sor = Idle /\ ss = Idle
    /\ srcsink = Idle /\ bcf = Idle /\ asm = Idle /\ MoreIdle
    /\ \E dxs \in GridWidthLists, dys \in GridWidthLists :
       \E x \in (-1)..(Extent(dxs) + 1), y \in (-1)..(Extent(dys) + 1) :
          grd = [pc |-> "new", grid |-> Grid_init(dxs, dys),
                 well |-> [x |-> x, y |-> y, cell_index |-> None]]

\* well.assign_to_grid(grid)
GrdAssign ==
    /\ grd.pc = "new"
    /\ LET r == get_cell_index(grd.grid, grd.well.x, grd.well.y)
       IN  grd' = IF r.raised THEN [grd EXCEPT !.pc = "raised"]
                  ELSE [grd EXCEPT !.pc = "assigned", !.well.cell_index = r.cell]
    /\ UNCHANGED <<runVars, dbc, thb, sor, ss, srcsink, bcf, asm, moreVars>>

GrdNext == GrdAssign

SpecGrid == GrdInit /\ [][GrdNext]_vars

\* C20: get_cell_index raises exactly when the point lies outside
\* [0, sum(dx)] x [0, sum(dy)]; for every point of the extent, boundary
\* included, assign_to_grid stores a cell (i, j) with
\* x_faces[i] <= x <= x_faces[i+1] and y_faces[j] <= y <= y_faces[j+1].
Claim_C20_CellOfEveryPoint ==
    grd.pc \in {"assigned", "raised"} =>
        LET g == grd.grid
            w == grd.well
            inside == /\ 0 <= w.x /\ w.x <= Extent(g.dx)
                      /\ 0 <= w.y /\ w.y <= Extent(g.dy)
        IN  IF inside
            THEN /\ grd.pc = "assigned"
                 /\ g.x_faces[w.cell_index[1] + 1] <= w.x
                 /\ w.x <= g.x_faces[w.cell_index[1] + 2]
                 /\ g.y_faces[w.cell_index[2] + 1] <= w.y
                 /\ w.y <= g.y_faces[w.cell_index[2] + 2]
            ELSE grd.pc = "raised"

\* ------------------------------------------------------------------------
\* FixedTimeStepper (time_stepper.py, lines 83-102); times are integers
\* ------------------------------------------------------------------------
coreVars == <<runVars, dbc, thb, sor, ss, srcsink, bcf, asm, grd, wrap>>

CoreIdle ==
    /\ RunIdle /\ dbc = Idle /\ thb = Idle /\ sor = Idle /\ ss = Idle
    /\ srcsink = Idle /\ bcf = Idle /\ asm = Idle /\ grd = Idle /\ wrap = Idle

MaxTEnd == 4

\* FixedTimeStepper(t_start, t_end, dt) with t_start <= t_end and dt > 0
FtsInit ==
    /\ CoreIdle /\ obs = Idle /\ stp = Idle /\ pcells = Idle
    /\ \E ts \in (-1)..1, dt \in 1..3 : \E te \in ts..MaxTEnd :
          fts = [pc |-> "new", t_start |-> ts, t_end |-> te, dt |-> dt,
                 t |-> 0, out |-> <<>>]

\* lines 97-98: t = self.t_start; out = [t]
FtsBegin ==
    /\ fts.pc = "new"
    /\ fts' = [fts EXCEPT !.pc = "loop", !.t = fts.t_start,
                          !.out = <<fts.t_start>>]
    /\ UNCHANGED <<coreVars, obs, stp, pcells>>

\* lines 99-101: while t < self.t_end: t += self.dt; out.append(t)
FtsIterate ==
    /\ fts.pc = "loop"
    /\ fts.t < fts.t_end
    /\ fts' = [fts EXCEPT !.t = fts.t + fts.dt,
                          !.out = Append(fts.out, fts.t + fts.dt)]
    /\ UNCHANGED <<coreVars, obs, stp, pcells>>

\* line 102: return out
FtsReturn ==
    /\ fts.pc = "loop"
    /\ ~(fts.t < fts.t_end)
    /\ fts' = [fts EXCEPT !.pc = "done"]
    /\ UNCHANGED <<coreVars, obs, stp, pcells>>

FtsNext == FtsBegin \/ FtsIterate \/ FtsReturn

SpecTimes == FtsInit /\ [][FtsNext]_vars

\* C21: the list returned by times() starts at t_start, its consecutive
\* elements differ by dt, its last element is t_end and no element exceeds
\* t_end.
Claim_C21_TimesEndAtTEnd ==
    fts.pc = "done" =>
        /\ fts.out[1] = fts.t_start
        /\ \A k \in 1..(Len(fts.out) - 1) : fts.out[k + 1] - fts.out[k] = fts.dt
        /\ fts.out[Len(fts.out)] = fts.t_end
        /\ \A k \in 1..Len(fts.out) : fts.out[k] <= fts.t_end

\* ------------------------------------------------------------------------
\* ObservationRecorder (observations.py). An entry of observation_points is
\* an ObservationPoint object [type |-> "object", i, j, name, reference_head],
\* a dict [type |-> "dict", i, j] with the optional keys name and
\* reference_head, or something else (a tuple)
\* ------------------------------------------------------------------------
MaxRecords == 2

\* f"obs_{n}"
ObsDefaultName(n) ==
    CASE n = 1 -> "obs_1"
      [] n = 2 -> "obs_2"
      [] n = 3 -> "obs_3"

\* lines 19-34, for the entry pt when n points are already in self.points
ObsNormalize(pt, n) ==
    IF pt.type = "object" THEN [raised |-> FALSE, point |-> pt]
    ELSE IF pt.type = "dict"
    THEN [raised |-> FALSE,
          point  |-> [type |-> "SimpleObs", i |-> pt.i, j |-> pt.j,
                      name |-> Get(pt, "name", ObsDefaultName(n + 1)),
                      reference_head |-> Get(pt, "reference_head", 0)]]
    ELSE Raise("ValueError")

\* ObservationRecorder.__init__, lines 11-40
RECURSIVE ObsPoints(_)
ObsPoints(points) ==
    IF points = <<>> THEN [raised |-> FALSE, points |-> <<>>]
    ELSE LET before == ObsPoints(SubSeq(points, 1, Len(points) - 1))
             last   == ObsNormalize(points[Len(points)], Len(before.points))
         IN  IF before.raised THEN before
             ELSE IF last.raised THEN [raised |-> TRUE, points |-> <<>>]
             ELSE [raised |-> FALSE, points |-> Append(before.points, last.point)]

\* the loop of record, lines 55-58, over the points in order
RECURSIVE ObservationRecorder_record(_, _, _, _)
ObservationRecorder_record(points, head, drawdown, head_field) ==
    IF points = <<>> THEN [head |-> head, drawdown |-> drawdown]
    ELSE LET pt == Head(points)
             hv == head_field[<<pt.i, pt.j>>]
         IN  ObservationRecorder_record(
                 Tail(points),
                 [head EXCEPT ![pt.name] = Append(@, hv)],
                 [drawdown EXCEPT ![pt.name] = Append(@, pt.reference_head - hv)],
                 head_field)

ObsObject(i, j, name, ref) ==
    [type |-> "object", i |-> i, j |-> j, name |-> name, reference_head |-> ref]

ObsPointLists ==
    {<<>>,
     <<ObsObject(0, 0, "mid", 10)>>,
     <<[type |-> "dict", i |-> 1, j |-> 0, name |-> "corner"]>>,
     <<[type |-> "dict", i |-> 1, j |-> 0]>>,
     <<ObsObject(0, 0, "mid", 10),
       [type |-> "dict", i |-> 1, j |-> 0, reference_head |-> 4]>>,
     <<[type |-> "dict", i |-> 0, j |-> 0], [type |-> "dict", i |-> 0, j |-> 0]>>,
     <<ObsObject(0, 0, "mid", 10), ObsObject(1, 0, "mid", 10)>>,
     <<ObsObject(0, 0, "obs_2", 10), [type |-> "dict", i |-> 1, j |-> 0]>>,
     <<ObsObject(0, 0, "mid", 10), [type |-> "tuple", i |-> 1, j |-> 0]>>}

\* head fields on the 2x1 grid
ObsFields == [{<<0, 0>>, <<1, 0>>} -> {3, 10}]

ObsInit ==
    /\ CoreIdle /\ fts = Idle /\ stp = Idle /\ pcells = Idle
    /\ \E pts \in ObsPointLists :
          obs = [pc |-> "new", observation_points |-> pts, points |-> <<>>,
                 enabled |-> FALSE, times |-> <<>>, head |-> <<>>,
                 drawdown |-> <<>>, calls |-> <<>>]

\* ObservationRecorder(model)
ObsConstruct ==
    /\ obs.pc = "new"
    /\ LET r == ObsPoints(obs.observation_points)
           Names == {r.points[k].name : k \in 1..Len(r.points)}
       IN  obs' = IF r.raised THEN [obs EXCEPT !.pc = "raised"]
                  ELSE [obs EXCEPT !.pc = "ready",
                                   !.points = r.points,
                                   !.enabled = Len(r.points) > 0,
                                   !.head = [nm \in Names |-> <<>>],
                                   !.drawdown = [nm \in Names |-> <<>>]]
    /\ UNCHANGED <<coreVars, fts, stp, pcells>>

\* recorder.record(time_value, head_field)
ObsRecord ==
    /\ obs.pc = "ready"
    /\ Len(obs.calls) < MaxRecords
    /\ \E tm \in {0, 5}, hf \in ObsFields :
          LET r == ObservationRecorder_record(obs.points, obs.head, obs.drawdown, hf)
          IN  obs' = IF ~obs.enabled
                     THEN [obs EXCEPT !.calls = Append(@, [t |-> tm, field |-> hf])]
                     ELSE [obs EXCEPT !.calls = Append(@, [t |-> tm, field |-> hf]),
                                      !.times = Append(@, tm),
                                      !.head = r.head,
                                      !.drawdown = r.drawdown]
    /\ UNCHANGED <<coreVars, fts, stp, pcells>>

ObsNext == ObsConstruct \/ ObsRecord

SpecObservations == ObsInit /\ [][ObsNext]_vars

\* C22: after any sequence of record calls every configured point has one
\* head sample and one drawdown sample per recorded time, the k-th head
\* sample is head_field[i, j] of the k-th call and the k-th drawdown is
\* reference_head minus that head; with no point nothing is recorded.
Claim_C22_OneSamplePerTime ==
    obs.pc = "ready" =>
        /\ obs.points = <<>> => obs.times = <<>>
        /\ \A n \in 1..Len(obs.points) :
              LET pt == obs.points[n]
              IN  /\ Len(obs.times) = Len(obs.calls)
                  /\ Len(obs.head[pt.name]) = Len(obs.times)
                  /\ Len(obs.drawdown[pt.name]) = Len(obs.times)
                  /\ \A k \in 1..Len(obs.times) :
                        /\ obs.times[k] = obs.calls[k].t
                        /\ k <= Len(obs.head[pt.name]) =>
                              obs.head[pt.name][k] =
                                  obs.calls[k].field[<<pt.i, pt.j>>]
                        /\ k <= Len(obs.drawdown[pt.name]) =>
                              obs.drawdown[pt.name][k] =
                                  pt.reference_head - obs.calls[k].field[<<pt.i, pt.j>>]

\* ------------------------------------------------------------------------
\* Wells in the source vector and in the budget (checked under SpecSource)
\* ------------------------------------------------------------------------
\* C23: at every time t the budget's net well flux (wells inflow minus wells
\* outflow) equals the sum of the well entries of the source vector f(t),
\* for constant wells and for wells with a time-varying schedule alike.
Claim_C23_WellSignsAgree ==
    (srcsink.pc = "ready" /\ srcsink.budget # None /\ ~srcsink.budget.raised) =>
        \A c \in 1..Len(srcsink.calls) :
            QSub[srcsink.budget.wells.in, srcsink.budget.wells.out] =
                QSum(srcsink.calls[c].rhs, DOMAIN srcsink.calls[c].rhs)

\* ------------------------------------------------------------------------
\* Cell indexing of the steady and the transient path on one grid. A cell is
\* marked: it holds the well of the steady model and is the inactive cell of
\* the transient model. Every other value names its cell.
\* ------------------------------------------------------------------------
MaxIdxCells == 6

IdxShapes ==
    {g \in (1..MaxIdxCells) \X (1..MaxIdxCells) : g[1] * g[2] <= MaxIdxCells}

\* a value that names the cell (i, j)
IdxTag(ij) == 10 * ij[1] + ij[2] + 1

\* ndarray.flatten() of an array of shape (nx, ny), C order
flatten(field, nx, ny) ==
    [k \in 0..(nx * ny - 1) |-> field[<<k \div ny, k % ny>>]]

\* a reshape that reads the vector in the steady path's order
reshape_Transposed(hv, nx, ny) ==
    [ij \in Cells(nx, ny) |-> hv[ij[2] * nx + ij[1]]]

\* h_new_vec.reshape((nx, ny)), C order
reshape(hv, nx, ny) ==
    [ij \in Cells(nx, ny) |-> hv[ij[1] * ny + ij[2]]]

\* compute_bc_fluxes: i = idx // ny, j = idx % ny
bc_cell(idx, ny) == <<idx \div ny, idx % ny>>

\* the steady model: a CONSTANT_HEAD cell entry with the tag of each cell
\* (all cells but the marked one when it is left free), a well on the marked cell
IdxSteadyModel(nx, ny, cell, free, me) ==
    LET all == [n \in 1..(nx * ny) |->
                  [type |-> "CONSTANT_HEAD", location |-> "CELL",
                   i |-> (n - 1) \div ny, j |-> (n - 1) % ny,
                   value |-> IdxTag(<<(n - 1) \div ny, (n - 1) % ny>>)]]
    IN  [nx |-> nx, ny |-> ny, confined |-> TRUE, thickness |-> 2, Kx |-> 1,
         Ky |-> 1,
         boundaries |-> SelectSeq(all, LAMBDA e : ~(free /\ <<e.i, e.j>> = cell)),
         wells |-> <<[i |-> cell[1], j |-> cell[2], rate |-> -4]>>,
         method |-> me]

\* the transient model: every cell active but the marked one
IdxTransientModel(nx, ny, cell) ==
    [nx |-> nx, ny |-> ny, dx |-> 1, dy |-> 1, T |-> 1, S |-> 1,
     active |-> [ij \in Cells(nx, ny) |-> ij # cell]]

IdxInit ==
    /\ CoreIdle /\ fts = Idle /\ obs = Idle /\ stp = Idle
    /\ \E g \in IdxShapes : \E cell \in Cells(g[1], g[2]), free \in BOOLEAN :
          /\ free => g[1] * g[2] > 1
          /\ pcells = [pc |-> "ready", nx |-> g[1], ny |-> g[2], cell |-> cell,
                       free |-> free, direct |-> None, iterative |-> None,
                       transient |-> None, perimeter |-> None]

\* steady path, direct: assemble_matrix, then solve_direct
IdxSolveDirect ==
    /\ pcells.pc = "ready" /\ pcells.direct = None
    /\ LET m == IdxSteadyModel(pcells.nx, pcells.ny, pcells.cell, pcells.free,
                               "direct")
           sys == assemble_matrix(m, initial_head_guess(m))
       IN  pcells' = [pcells EXCEPT !.direct = solve_direct(sys, m.nx, m.ny)]
    /\ UNCHANGED <<coreVars, fts, obs, stp>>

\* steady path, iterative: assemble_matrix, then solve_iterative (w = 1)
IdxSolveIterative ==
    /\ pcells.pc = "ready" /\ pcells.iterative = None
    /\ LET m == IdxSteadyModel(pcells.nx, pcells.ny, pcells.cell, pcells.free,
                               "sor")
           sys == assemble_matrix(m, initial_head_guess(m))
       IN  pcells' = [pcells EXCEPT !.iterative =
                        solve_iterative(ToCsr(sys.A, m.nx * m.ny), sys.b, m.nx,
                                        m.ny, QOne, MaxIter, Rat[1, 1000000])]
    /\ UNCHANGED <<coreVars, fts, obs, stp>>

\* transient path: the linear index of every cell, the conductance matrix,
\* the storage vector, the flattened initial heads, the boundary cell decoded
\* by the budget and the reshaped solution
IdxTransient ==
    /\ pcells.pc = "ready" /\ pcells.transient = None
    /\ LET nx == pcells.nx
           ny == pcells.ny
           m  == IdxTransientModel(nx, ny, pcells.cell)
           h0 == [ij \in Cells(nx, ny) |-> QI(IdxTag(ij))]
       IN  pcells' = [pcells EXCEPT !.transient =
              [linear  |-> [ij \in Cells(nx, ny) |-> cell_to_linear_index(ij, ny)],
               A       |-> build_conductance_matrix(nx, ny, m.dx, m.dy,
                                                    transmissivity(m), m.active),
               storage |-> Storage_vector(m),
               h_old   |-> flatten(h0, nx, ny),
               bc_ij   |-> [k \in 0..(nx * ny - 1) |-> bc_cell(k, ny)],
               h_new   |-> reshape(flatten(h0, nx, ny), nx, ny)]]
    /\ UNCHANGED <<coreVars, fts, obs, stp>>

\* cells, coords = _perimeter_cells(nx, ny)
IdxPerimeter ==
    /\ pcells.pc = "ready" /\ pcells.perimeter = None
    /\ pcells' = [pcells EXCEPT !.perimeter = perimeter_cells(pcells.nx, pcells.ny)]
    /\ UNCHANGED <<coreVars, fts, obs, stp>>

IdxNext == IdxSolveDirect \/ IdxSolveIterative \/ IdxTransient \/ IdxPerimeter

SpecIndex == IdxInit /\ [][IdxNext]_vars

\* the head the steady system prescribes at cell ij: the tag of a
\* constant-head cell (plus the well rate, which is added to every row), and at
\* the free cell the mean of the neighbours' heads plus rate / (sum of the
\* conductances)
IdxSteadyHead(ij) ==
    LET cfg == [nx |-> pcells.nx, ny |-> pcells.ny]
        Nb  == AsmNeighbours(cfg, ij)
        tr  == harmonic_trans(TRUE, 1, 1, QI(2), QI(2))
    IN  IF ij # pcells.cell THEN QI(IdxTag(ij))
        ELSE IF ~pcells.free THEN QI(IdxTag(ij) - 4)
        ELSE QDiv[QAdd[QMul[tr, QI(SumInt([nb \in Nb |-> IdxTag(nb)], Nb))], QI(-4)],
                  QMul[tr, QI(Cardinality(Nb))]]

Claim_C29_PerimeterOnce ==
    (pcells.pc = "ready" /\ pcells.perimeter # None) =>
        LET nx == pcells.nx
            ny == pcells.ny
            pm == pcells.perimeter
            OnEdge(ij) == ij[1] \in {0, nx - 1} \/ ij[2] \in {0, ny - 1}
        IN  /\ Len(pm.cells) = Len(pm.coords)
            /\ \A ij \in Cells(nx, ny) :
                  Cardinality({n \in 1..Len(pm.coords) : pm.coords[n] = ij}) =
                      IF OnEdge(ij) THEN 1 ELSE 0
            /\ \A n \in 1..Len(pm.coords) :
                  /\ pm.coords[n] \in Cells(nx, ny)
                  /\ pm.cells[n] = pm.coords[n][1] * ny + pm.coords[n][2]

\* ------------------------------------------------------------------------
\* The two time integrators on one system (time_stepper.py, lines 29-77)
\* ------------------------------------------------------------------------
\* CrankNicolsonStepper.build_system: A_eff = diag(S/dt) - 0.5*A,
\* b = (S/dt)*h_old + 0.5*A@h_old + W
CrankNicolson_build_system(S, h_old, dt, A, W, N) ==
    LET S_diag == [k \in 0..(N - 1) |-> QDiv[S[k], QI(dt)]]
        Ah     == MatVec(A, h_old, N)
    IN  [A_eff |-> [k \in 0..(N - 1) |-> [c \in 0..(N - 1) |->
                       QSub[IF c = k THEN S_diag[k] ELSE QZero,
                            QMul[Rat[1, 2], A[k][c]]]]],
         b     |-> [k \in 0..(N - 1) |->
                       QAdd[QAdd[QMul[S_diag[k], h_old[k]], QMul[Rat[1, 2], Ah[k]]],
                            W[k]]]]

MaxStpN == 2

\* matrices with one value on the diagonal and one beside it
StpMatrix(N, dg, off) ==
    [k \in 0..(N - 1) |-> [c \in 0..(N - 1) |->
        IF c = k THEN QI(dg) ELSE IF c = k + 1 \/ k = c + 1 THEN QI(off) ELSE QZero]]

\* a system A, heads h_prev, storage >= 0, dt > 0 and sources W = A*h_prev + e:
\* h_prev is a steady state of (A, W) when e = 0
StpInit ==
    /\ CoreIdle /\ fts = Idle /\ obs = Idle /\ pcells = Idle
    /\ \E N \in 1..MaxStpN, dg \in 0..2, off \in {-1, 0}, C \in 0..2,
          dt \in 1..2, e \in 0..1 :
       \E hp \in [0..(N - 1) -> {0, 1, 3}] :
          LET A  == StpMatrix(N, dg, off)
              hq == [k \in 0..(N - 1) |-> QI(hp[k])]
              Ah == MatVec(A, hq, N)
          IN  stp = [pc |-> "ready", N |-> N, A |-> A, h_prev |-> hq,
                     W |-> [k \in 0..(N - 1) |->
                              IF k = 0 THEN QAdd[Ah[k], QI(e)] ELSE Ah[k]],
                     storage |-> [k \in 0..(N - 1) |-> QI(C)], dt |-> dt,
                     euler |-> None, crank |-> None]

\* ImplicitEulerStepper().build_system(model, h_prev, dt, A, W)
StpImplicitEuler ==
    /\ stp.pc = "ready" /\ stp.euler = None
    /\ stp' = [stp EXCEPT !.euler =
                  build_system(stp.storage, stp.h_prev, stp.dt, stp.A, stp.W, stp.N)]
    /\ UNCHANGED <<coreVars, fts, obs, pcells>>

\* CrankNicolsonStepper().build_system(model, h_prev, dt, A, W)
StpCrankNicolson ==
    /\ stp.pc = "ready" /\ stp.crank = None
    /\ stp' = [stp EXCEPT !.crank =
                  CrankNicolson_build_system(stp.storage, stp.h_prev, stp.dt,
                                             stp.A, stp.W, stp.N)]
    /\ UNCHANGED <<coreVars, fts, obs, pcells>>

StpNext == StpImplicitEuler \/ StpCrankNicolson

SpecSteppers == StpInit /\ [][StpNext]_vars

\* A*h_prev = W
StpSteady == MatVec(stp.A, stp.h_prev, stp.N) = stp.W

\* h_prev solves the system sys
StpSolves(sys) == MatVec(sys.A_eff, stp.h_prev, stp.N) = sys.b

\* C25: both time integrators preserve a steady state: when A*h_prev = f,
\* h_prev satisfies the system (A_eff, b) that build_system returns, for
\* ImplicitEulerStepper and for CrankNicolsonStepper.
Claim_C25_SteadyPreserved ==
    (stp.pc = "ready" /\ StpSteady) =>
        /\ stp.euler # None => StpSolves(stp.euler)
        /\ stp.crank # None => StpSolves(stp.crank)

\* ------------------------------------------------------------------------
\* The step system of TransientSolver.run after the boundary conditions
\* ------------------------------------------------------------------------
\* every boundary condition has been applied: (A_eff, b) goes to the solver
RunSystemComplete == run_pc = "bc" /\ bc_i = Len(model.bcs)

\* the number of entries of cell k in the cell lists of the conductance
\* boundaries (general-head, river) of the model
ConductanceAt(m, k) ==
    LET Bn == {n \in 1..Len(m.bcs) : m.bcs[n].kind \in {"ghb", "river"}}
    IN  [C  |-> SumInt([n \in Bn |-> CountIn(m.bcs[n].cells, k) * m.bcs[n].C], Bn),
         Ch |-> SumInt([n \in Bn |-> CountIn(m.bcs[n].cells, k) * m.bcs[n].C
                                         * m.bcs[n].value], Bn)]

\* build_system on A with the boundary conductance on its diagonal and on W
\* with C*stage added at the boundary cells
SystemWithConductance(m, stor, hcur, tm) ==
    LET N  == NCells(m)
        A  == build_conductance_matrix(m.nx, m.ny, m.dx, m.dy, transmissivity(m),
                                       m.active)
        W  == build_W_vector(m, tm)
        Ab == [k \in 0..(N - 1) |-> [c \in 0..(N - 1) |->
                 IF c = k THEN QAdd[A[k][c], QI(ConductanceAt(m, k).C)] ELSE A[k][c]]]
        Wb == [k \in 0..(N - 1) |-> QAdd[W[k], QI(ConductanceAt(m, k).Ch)]]
    IN  build_system(stor, hcur, m.dt, Ab, Wb, N)

\* the model's boundary conditions are general-head or river boundaries
OnlyConductanceBCs(m) ==
    /\ m.bcs # <<>>
    /\ \A n \in 1..Len(m.bcs) : m.bcs[n].kind \in {"ghb", "river"}

\* C26: with ImplicitEulerStepper, for every dt > 0 the step system after
\* GeneralHeadBC.apply equals the system that build_system returns when C
\* is added to the diagonal of A and C*stage to f at the boundary cell: the
\* boundary flux is integrated over dt like the well and inter-cell fluxes.
Claim_C26_BoundaryOverDt ==
    (RunSystemComplete /\ OnlyConductanceBCs(model)) =>
        /\ A_eff = SystemWithConductance(model, storage, h, t).A_eff
        /\ b = SystemWithConductance(model, storage, h, t).b

\* cell k is prescribed by the Dirichlet condition n of the model and by no
\* other head-prescribing condition (Dirichlet or Theis)
OnlyPrescribedBy(m, n, k) ==
    /\ m.bcs[n].kind = "dirichlet"
    /\ k \in SeqToSet(m.bcs[n].cells)
    /\ \A o \in (1..Len(m.bcs)) \ {n} :
          m.bcs[o].kind \in {"dirichlet", "theis"} => k \notin SeqToSet(m.bcs[o].cells)

\* C27: at every recorded step after the initial one the head at each
\* Dirichlet cell equals its prescribed value, whatever other boundary
\* conditions (a general-head or river boundary on the same cell) stand
\* before or after the Dirichlet condition in the list.
Claim_C27_DirichletHolds ==
    run_pc # "off" =>
        \A s \in 2..Len(heads) : \A n \in 1..Len(model.bcs) :
            \A k \in 0..(NCells(model) - 1) :
                OnlyPrescribedBy(model, n, k) => heads[s][k] = QI(model.bcs[n].value)

\* C28: in every transient step (of a model with storativity S > 0) each row
\* of the system handed to the linear solver has a non-zero diagonal, the
\* rows of inactive cells included, and the step does not fail on a singular
\* matrix.
Claim_C28_NoZeroRow ==
    (run_pc # "off" /\ model.S > 0) =>
        /\ RunSystemComplete =>
              /\ \A k \in 0..(NCells(model) - 1) : A_eff[k][k] # QZero
              /\ linalg_solve(A_eff, b, NCells(model)).ok
        /\ (run_pc = "raised" /\ bc_i = Len(model.bcs)) =>
              \E n \in 1..Len(model.bcs) : model.bcs[n].kind \in {"flux", "theis"}

\* ------------------------------------------------------------------------
\* The clock of run_transient_solver and TransientSolver.run. dt, t and t_end
\* are Python floats (IEEE 754 binary64): a positive float is [man, exp] with
\* value man * 2^exp, man a 53-bit natural number written as its bits, least
\* significant first; zero has no bits.
\* ------------------------------------------------------------------------
MantissaBits == 53

\* x + y + carry on bit sequences
RECURSIVE BitsAdd(_, _, _)
BitsAdd(x, y, carry) ==
    IF x = <<>> /\ y = <<>> THEN (IF carry = 1 THEN <<1>> ELSE <<>>)
    ELSE LET xa == IF x = <<>> THEN 0 ELSE Head(x)
             ya == IF y = <<>> THEN 0 ELSE Head(y)
             sm == xa + ya + carry
         IN  <<sm % 2>> \o BitsAdd(IF x = <<>> THEN <<>> ELSE Tail(x),
                                   IF y = <<>> THEN <<>> ELSE Tail(y), sm \div 2)

\* n * x
RECURSIVE BitsTimes(_, _)
BitsTimes(x, n) == IF n = 0 THEN <<>> ELSE BitsAdd(x, BitsTimes(x, n - 1), 0)

\* x * 2^k
ShiftLeft(x, k) == [n \in 1..(Len(x) + k) |-> IF n <= k THEN 0 ELSE x[n - k]]

\* x < y for bit sequences whose last bit is 1
BitsLt(x, y) ==
    \/ Len(x) < Len(y)
    \/ /\ Len(x) = Len(y)
       /\ \E n \in 1..Len(x) :
             /\ x[n] < y[n]
             /\ \A k \in (n + 1)..Len(x) : x[k] = y[k]

\* the bits of a number written in hexadecimal digits, most significant first
RECURSIVE HexBits(_)
HexBits(ds) ==
    IF ds = <<>> THEN <<>>
    ELSE LET dg == ds[Len(ds)]
             hi == HexBits(SubSeq(ds, 1, Len(ds) - 1))
             lo == <<dg % 2, (dg \div 2) % 2, (dg \div 4) % 2, dg \div 8>>
         IN  IF hi = <<>>
             THEN SubSeq(lo, 1, SetMax({n \in 1..4 : lo[n] = 1}))
             ELSE lo \o hi

\* the float nearest to bits * 2^e, ties to the even mantissa
RoundToDouble(bits, e) ==
    LET L == Len(bits)
    IN  IF L <= MantissaBits
        THEN [man |-> ShiftLeft(bits, MantissaBits - L), exp |-> e - (MantissaBits - L)]
        ELSE LET dn   == L - MantissaBits
                 kept == SubSeq(bits, dn + 1, L)
                 up   == /\ bits[dn] = 1
                         /\ \/ kept[1] = 1
                            \/ \E n \in 1..(dn - 1) : bits[n] = 1
                 r    == IF up THEN BitsAdd(kept, <<1>>, 0) ELSE kept
             IN  IF Len(r) > MantissaBits
                 THEN [man |-> Tail(r), exp |-> e + dn + 1]
                 ELSE [man |-> r, exp |-> e + dn]

FloatZero == [man |-> <<>>, exp |-> 0]

\* x + y (t += dt)
float_add(x, y) ==
    IF x.man = <<>> THEN y
    ELSE IF y.man = <<>> THEN x
    ELSE LET e == IF x.exp < y.exp THEN x.exp ELSE y.exp
         IN  RoundToDouble(BitsAdd(ShiftLeft(x.man, x.exp - e),
                                   ShiftLeft(y.man, y.exp - e), 0), e)

\* x * n for an int n >= 1 (dt * steps)
float_mul(x, n) ==
    IF x.man = <<>> THEN x ELSE RoundToDouble(BitsTimes(x.man, n), x.exp)

\* x < y (t < t_end)
float_lt(x, y) ==
    IF y.man = <<>> THEN FALSE
    ELSE IF x.man = <<>> THEN TRUE
    ELSE LET e == IF x.exp < y.exp THEN x.exp ELSE y.exp
         IN  BitsLt(ShiftLeft(x.man, x.exp - e), ShiftLeft(y.man, y.exp - e))

\* the float of a power of two
FloatPow2(e) == RoundToDouble(<<1>>, e)

\* the floats 0.1 (0x1.999999999999ap-4), 0.25, 0.5, 1.0 and 0.7
\* (0x1.6666666666666p-1)
WrapDts ==
    {[man |-> HexBits(<<1, 9, 9, 9, 9, 9, 9, 9, 9, 9, 9, 9, 9, 10>>), exp |-> -56],
     FloatPow2(-2), FloatPow2(-1), FloatPow2(0),
     [man |-> HexBits(<<1, 6, 6, 6, 6, 6, 6, 6, 6, 6, 6, 6, 6, 6>>), exp |-> -53]}

MaxWrapSteps == 6

restVars == <<runVars, dbc, thb, sor, ss, srcsink, bcf, asm, grd, fts, obs, stp, pcells>>

\* run_transient_solver(config) with config["dt"] = dt > 0, config["steps"] = n
WrapInit ==
    /\ RunIdle /\ dbc = Idle /\ thb = Idle /\ sor = Idle /\ ss = Idle
    /\ srcsink = Idle /\ bcf = Idle /\ asm = Idle /\ grd = Idle
    /\ fts = Idle /\ obs = Idle /\ stp = Idle /\ pcells = Idle
    /\ \E dt \in WrapDts, n \in 1..MaxWrapSteps :
          wrap = [pc |-> "config", dt |-> dt, steps |-> n, t_end |-> FloatZero,
                  t |-> FloatZero, step |-> 0, heads |-> <<>>]

\* run_transient_solver lines 206-207 and run() lines 46-50: t_start = 0.0,
\* t_end = dt * steps, heads = [h0], t = t_start, step = 0
WrapBegin ==
    /\ wrap.pc = "config"
    /\ wrap' = [wrap EXCEPT !.pc = "loop", !.t_end = float_mul(wrap.dt, wrap.steps),
                            !.t = FloatZero, !.step = 0, !.heads = <<"h0">>]
    /\ UNCHANGED restVars

\* one pass of the loop of run(), lines 52-112: the step is solved, its head
\* is appended to the history, t += dt, step += 1
WrapStep ==
    /\ wrap.pc = "loop"
    /\ float_lt(wrap.t, wrap.t_end)
    /\ wrap' = [wrap EXCEPT !.heads = Append(wrap.heads, <<"step", wrap.step>>),
                            !.t = float_add(wrap.t, wrap.dt),
                            !.step = wrap.step + 1]
    /\ UNCHANGED restVars

\* line 114: the loop condition fails and run() returns the history
WrapReturn ==
    /\ wrap.pc = "loop"
    /\ ~float_lt(wrap.t, wrap.t_end)
    /\ wrap' = [wrap EXCEPT !.pc = "done"]
    /\ UNCHANGED restVars

WrapNext == WrapBegin \/ WrapStep \/ WrapReturn

SpecClock == WrapInit /\ [][WrapNext]_vars

\* C30: the history returned by run() starts with h0 and holds one entry
\* per executed step, in order, and run_transient_solver with steps = n and
\* dt > 0 executes exactly n steps.
Claim_C30_ExactlyNSteps ==
    wrap.pc \in {"loop", "done"} =>
        /\ Len(wrap.heads) = wrap.step + 1
        /\ wrap.heads[1] = "h0"
        /\ \A k \in 2..Len(wrap.heads) : wrap.heads[k] = <<"step", k - 2>>
        /\ wrap.step <= wrap.steps
        /\ wrap.pc = "done" => wrap.step = wrap.steps
====
